---------------------------- MODULE Spec2Model ----------------------------
(***************************************************************************)
(* Node management of the OPC UA address space                             *)
(* (src/server/ua_services_nodemanagement.c): AddNodes, AddReferences,     *)
(* DeleteNodes, DeleteReferences, instantiation of type members, object    *)
(* lifecycle callbacks.                                                    *)
(*                                                                         *)
(* A NodeId is an integer ns * NsBase + numeric identifier; 0 is the null  *)
(* NodeId.  The node store is a function from the ids of the stored nodes  *)
(* to node records.  Operations are operators from a server state          *)
(* [nodes, log] to a result [st, rv, ...]; the log records the user        *)
(* callbacks and the store insertions/removals an operation has made.      *)
(***************************************************************************)
EXTENDS Integers, Sequences, FiniteSets, TLC

VARIABLES nodes,    \* the NodeStore: NodeId -> node
          pending,  \* ids returned by addNode_begin and not yet finished
          last,     \* the last public call: operation, arguments, status, store before it
          nops,     \* number of public calls made so far
          rcu       \* nesting count of the process-wide lock

vars == <<nodes, pending, last, nops, rcu>>

-----------------------------------------------------------------------------
(* Bounds *)

MaxOps == 2         \* public calls per behaviour
MaxDepth == 6       \* nesting depth of addNode -> instantiateNode -> copyChildNodes
MaxEdgeOps == 3     \* calls per behaviour of the specification of the reference list
MaxAddOps == 1      \* calls per behaviour of the specification of the parent rules
MaxTypeOps == 2      \* calls per behaviour of the specification of the data type check
MaxGoodOps == 3      \* calls per behaviour of the specification of the successful additions
MaxRecOps == 2       \* calls per behaviour of the specification of the recursive types
MaxNesting == 4      \* nesting depth of addNode in the specification of the recursive types
MaxPeerOps == 3     \* calls per behaviour of the specification of the peer edges
MaxInstOps == 3     \* calls per behaviour of the specification of the instantiation

-----------------------------------------------------------------------------
(* Status codes *)

Good == "Good"
BadOutOfMemory == "BadOutOfMemory"
BadNodeIdInvalid == "BadNodeIdInvalid"
BadNodeIdUnknown == "BadNodeIdUnknown"
BadNodeIdExists == "BadNodeIdExists"
BadNodeClassInvalid == "BadNodeClassInvalid"
BadParentNodeIdInvalid == "BadParentNodeIdInvalid"
BadReferenceTypeIdInvalid == "BadReferenceTypeIdInvalid"
BadReferenceNotAllowed == "BadReferenceNotAllowed"
BadTypeDefinitionInvalid == "BadTypeDefinitionInvalid"
BadTypeMismatch == "BadTypeMismatch"
BadNotImplemented == "BadNotImplemented"
UncertainReferenceNotDeleted == "UncertainReferenceNotDeleted"
BadNothingToDo == "BadNothingToDo"
\* the process dies (null pointer dereference, unbounded recursion)
Crash == "Crash"
\* bitwise or of two different non-good status codes
Combined == "Combined"

\* retval |= status
StatusOr(a, b) ==
    IF a = Crash \/ b = Crash THEN Crash
    ELSE IF a = Good THEN b
    ELSE IF b = Good \/ a = b THEN a
    ELSE Combined

-----------------------------------------------------------------------------
(* Node classes *)

OBJECT == "Object"
VARIABLE_ == "Variable"
METHOD == "Method"
OBJECTTYPE == "ObjectType"
VARIABLETYPE == "VariableType"
REFERENCETYPE == "ReferenceType"
DATATYPE == "DataType"
VIEW == "View"

-----------------------------------------------------------------------------
(* NodeIds *)

NsBase == 1000
NullId == 0
NamespacesSize == 2

NsOf(id) == id \div NsBase
NumOf(id) == id % NsBase
UA_NodeId_isNull(id) == id = NullId

\* namespace 0
INT32 == 6
STRINGTYPE == 12
ARGUMENT == 296
BASEDATATYPE == 24
REFERENCES == 31
NONHIERARCHICALREFERENCES == 32
HIERARCHICALREFERENCES == 33
HASCHILD == 34
ORGANIZES == 35
HASTYPEDEFINITION == 40
AGGREGATES == 44
HASSUBTYPE == 45
HASPROPERTY == 46
HASCOMPONENT == 47
BASEOBJECTTYPE == 58
FOLDERTYPE == 61
BASEVARIABLETYPE == 62
BASEDATAVARIABLETYPE == 63
PROPERTYTYPE == 68
OBJECTSFOLDER == 85

-----------------------------------------------------------------------------
(* Nodes *)

NoValue == [type |-> NullId, scalar |-> TRUE, data |-> 0]
ScalarValue(t, d) == [type |-> t, scalar |-> TRUE, data |-> d]
ArrayValue(t) == [type |-> t, scalar |-> FALSE, data |-> 0]

\* UA_NodeStore_newNode: a zero-initialised node of the class
UA_NodeStore_newNode(class) ==
    [nodeId |-> NullId, nodeClass |-> class, browseName |-> "",
     references |-> <<>>, isAbstract |-> FALSE,
     constructor |-> FALSE, destructor |-> FALSE, instanceHandle |-> 0,
     dataType |-> NullId, valueRank |-> 0, arrayDimensions |-> <<>>,
     valueSource |-> "Data", value |-> NoValue]

ReferenceNode(r, t, inv) == [referenceTypeId |-> r, targetId |-> t, isInverse |-> inv]

AddReferencesItem(s, r, t, fwd) ==
    [sourceNodeId |-> s, referenceTypeId |-> r, targetNodeId |-> t,
     isForward |-> fwd, targetServerUri |-> 0]

\* UA_DeleteReferencesItem_init leaves every member zero
DeleteReferencesItem(s, r, t, fwd, bidir) ==
    [sourceNodeId |-> s, referenceTypeId |-> r, targetNodeId |-> t,
     isForward |-> fwd, deleteBidirectional |-> bidir, serverIndex |-> 0]

-----------------------------------------------------------------------------
(* Server state threaded through the operations *)

Exists(st, id) == id \in DOMAIN st.nodes

Logged(st, ev) == [st EXCEPT !.log = Append(@, ev)]

PutNode(st, n) ==
    [st EXCEPT !.nodes = [i \in DOMAIN st.nodes \cup {n.nodeId} |->
                             IF i = n.nodeId THEN n ELSE st.nodes[i]]]

\* UA_NodeStore_remove
UA_NodeStore_remove(st, id) ==
    IF ~Exists(st, id) THEN [st |-> st, rv |-> BadNodeIdUnknown]
    ELSE [st |-> Logged([st EXCEPT !.nodes = [i \in DOMAIN st.nodes \ {id} |-> st.nodes[i]]],
                        <<"remove", id>>),
          rv |-> Good]

RECURSIVE MaxOf(_)
MaxOf(S) == IF S = {} THEN 0
            ELSE LET x == CHOOSE y \in S : TRUE
                     m == MaxOf(S \ {x})
                 IN IF x > m THEN x ELSE m

\* a numeric identifier of namespace ns that no stored node has
FreshId(st, ns) ==
    ns * NsBase + 1 + MaxOf({NumOf(i) : i \in {j \in DOMAIN st.nodes : NsOf(j) = ns}})

\* UA_NodeStore_insert: a null identifier asks for a fresh numeric one
UA_NodeStore_insert(st, node) ==
    LET id == IF NumOf(node.nodeId) = 0 THEN FreshId(st, NsOf(node.nodeId))
              ELSE node.nodeId
    IN IF Exists(st, id) THEN [st |-> st, rv |-> BadNodeIdExists, id |-> NullId]
       ELSE [st |-> Logged(PutNode(st, [node EXCEPT !.nodeId = id]), <<"insert", id>>),
             rv |-> Good, id |-> id]

\* UA_NodeStore_getCopy: deep copy of the stored node, all members included
UA_NodeStore_getCopy(st, id) == st.nodes[id]

\* UA_Server_editNode: a mutable borrow of the stored node is handed to the
\* callback; edited is the callback's outcome on the borrowed node st.nodes[id]
\* (the node as the callback leaves it and the callback's status), looked at
\* only when the node exists; the callback's status is handed back
UA_Server_editNode(st, id, edited) ==
    IF ~Exists(st, id) THEN [st |-> st, rv |-> BadNodeIdUnknown]
    ELSE [st |-> PutNode(st, edited.node), rv |-> edited.rv]

-----------------------------------------------------------------------------
(* Browsing and the type hierarchy (collaborators of the services) *)

RECURSIVE ForwardClosure(_, _, _, _)
\* the nodes reached from the frontier over forward edges of type r
ForwardClosure(st, frontier, visited, r) ==
    IF frontier = {} THEN visited
    ELSE LET next == {e.targetId : e \in
                        UNION {{st.nodes[n].references[k] :
                                  k \in {j \in 1..Len(st.nodes[n].references) :
                                           /\ ~st.nodes[n].references[j].isInverse
                                           /\ st.nodes[n].references[j].referenceTypeId = r}} :
                               n \in frontier \cap DOMAIN st.nodes}}
         IN ForwardClosure(st, next \ (visited \cup frontier), visited \cup frontier, r)

\* the reference type and, when asked for, its subtypes
RelevantReferenceTypes(st, refType, includeSubtypes) ==
    IF includeSubtypes THEN ForwardClosure(st, {refType}, {}, HASSUBTYPE) ELSE {refType}

\* the reference descriptions of a browse result
ReferenceDescriptions(st, refs) ==
    [i \in 1..Len(refs) |->
        [referenceTypeId |-> refs[i].referenceTypeId,
         nodeId |-> refs[i].targetId,
         nodeClass |-> st.nodes[refs[i].targetId].nodeClass,
         browseName |-> st.nodes[refs[i].targetId].browseName]]

\* Service_Browse_single: the references of the node that have the direction,
\* a relevant reference type and a stored target of a class in the mask, in
\* the order of the node's reference list
Service_Browse_single(st, nodeId, refType, includeSubtypes, inverse, classMask) ==
    IF ~Exists(st, nodeId) THEN [statusCode |-> BadNodeIdUnknown, references |-> <<>>]
    ELSE LET relevant == RelevantReferenceTypes(st, refType, includeSubtypes)
             Match(e) == /\ e.isInverse = inverse
                         /\ e.referenceTypeId \in relevant
                         /\ Exists(st, e.targetId)
                         /\ st.nodes[e.targetId].nodeClass \in classMask
         IN [statusCode |-> Good,
             references |-> ReferenceDescriptions(st, SelectSeq(st.nodes[nodeId].references, Match))]

RECURSIVE InverseClosure(_, _, _, _)
\* the nodes reached from the frontier over inverse edges of type r
InverseClosure(st, frontier, visited, r) ==
    IF frontier = {} THEN visited
    ELSE LET next == {e.targetId : e \in
                        UNION {{st.nodes[n].references[k] :
                                  k \in {j \in 1..Len(st.nodes[n].references) :
                                           /\ st.nodes[n].references[j].isInverse
                                           /\ st.nodes[n].references[j].referenceTypeId = r}} :
                               n \in frontier \cap DOMAIN st.nodes}}
         IN InverseClosure(st, next \ (visited \cup frontier), visited \cup frontier, r)

\* isNodeInTree: is nodeToFind the leaf or reached from it over inverse
\* references of type r
isNodeInTree(st, leafNode, nodeToFind, r) ==
    nodeToFind \in InverseClosure(st, {leafNode}, {}, r)

RECURSIVE TypeHierarchyFrom(_, _, _, _)
\* walk results[idx..]: append the inverse hasSubtype targets of each entry
TypeHierarchyFrom(st, class, results, idx) ==
    IF idx > Len(results) THEN results
    ELSE IF \/ ~Exists(st, results[idx])
            \/ st.nodes[results[idx]].nodeClass # class
         THEN TypeHierarchyFrom(st, class, results, idx + 1)
         ELSE LET refs == st.nodes[results[idx]].references
                  Super(e) == /\ e.isInverse
                              /\ e.referenceTypeId = HASSUBTYPE
                              /\ \A k \in 1..Len(results) : results[k] # e.targetId
                  sup == SelectSeq(refs, Super)
                  RECURSIVE Dedup(_)
                  Dedup(s) == IF s = <<>> THEN <<>>
                              ELSE LET rest == Dedup(Tail(s))
                                   IN IF \E k \in 1..Len(rest) : rest[k] = Head(s).targetId
                                      THEN rest ELSE <<Head(s).targetId>> \o rest
              IN TypeHierarchyFrom(st, class, results \o Dedup(sup), idx + 1)

\* getTypeHierarchy: the type (includeSelf) and its supertypes, most specific first
getTypeHierarchy(st, typeId) ==
    TypeHierarchyFrom(st, st.nodes[typeId].nodeClass, <<typeId>>, 1)

\* getNodeType: the target of the node's first forward HasTypeDefinition
\* reference, NullId when there is none or it is not stored
getNodeType(st, node) ==
    LET IsTypeDef(e) == ~e.isInverse /\ e.referenceTypeId = HASTYPEDEFINITION
        td == SelectSeq(node.references, IsTypeDef)
    IN IF td = <<>> THEN NullId
       ELSE IF Exists(st, td[1].targetId) THEN td[1].targetId ELSE NullId

-----------------------------------------------------------------------------
(* Add and delete references *)

\* addOneWayReference: append the edge to the node's list
addOneWayReference(node, item, oom) ==
    IF oom THEN [node |-> node, rv |-> BadOutOfMemory]
    ELSE [node |-> [node EXCEPT !.references =
                       Append(@, ReferenceNode(item.referenceTypeId, item.targetNodeId,
                                               ~item.isForward))],
          rv |-> Good]

SizeMax == 2^30

RECURSIVE ScanReferences(_, _, _)
\* the loop of deleteOneWayReference: i is a size_t that counts down from
\* referencesSize-1 and wraps around below zero; the result is the index of
\* the edge to remove, SizeMax when the scan ends without a match
ScanReferences(refs, item, i) ==
    IF i > Len(refs) THEN SizeMax
    ELSE IF i = Len(refs) THEN SizeMax + 1    \* reads references[referencesSize]
    ELSE IF \/ item.targetNodeId # refs[i + 1].targetId
            \/ item.referenceTypeId # refs[i + 1].referenceTypeId
            \/ item.isForward = refs[i + 1].isInverse
         THEN ScanReferences(refs, item, (i - 1) % SizeMax)
         ELSE i

RECURSIVE ScanTrace(_, _, _)
\* the values that the index i of the loop of deleteOneWayReference takes, in
\* order, from the start value to the value at which the loop is left
ScanTrace(refs, item, i) ==
    IF i >= Len(refs) THEN <<i>>
    ELSE IF \/ item.targetNodeId # refs[i + 1].targetId
            \/ item.referenceTypeId # refs[i + 1].referenceTypeId
            \/ item.isForward = refs[i + 1].isInverse
         THEN <<i>> \o ScanTrace(refs, item, (i - 1) % SizeMax)
         ELSE <<i>>

\* RemoveReferenceAt that moves the last entry and keeps referencesSize
RemoveReferenceAt_SizeKept(node, i) ==
    IF i >= SizeMax THEN [node |-> node, rv |-> UncertainReferenceNotDeleted]
    ELSE [node |-> [node EXCEPT !.references =
                       [node.references EXCEPT
                           ![i + 1] = node.references[Len(node.references)]]],
          rv |-> Good]

\* the end of deleteOneWayReference: without a match nothing is removed, with
\* a match at index i the last entry is moved over it
RemoveReferenceAt(node, i) ==
    IF i >= SizeMax THEN [node |-> node, rv |-> UncertainReferenceNotDeleted]
    ELSE [node |-> [node EXCEPT !.references =
                       SubSeq([node.references EXCEPT
                                  ![i + 1] = node.references[Len(node.references)]],
                              1, Len(node.references) - 1)],
          rv |-> Good]

\* deleteOneWayReference that compares the orientation the wrong way round
deleteOneWayReference_Orientation(node, item) ==
    RemoveReferenceAt(node,
        ScanReferences(node.references, [item EXCEPT !.isForward = ~item.isForward],
                       (Len(node.references) - 1) % SizeMax))

\* deleteOneWayReference that scans from the head of the list
deleteOneWayReference_FromHead(node, item) ==
    LET m == {k \in 1..Len(node.references) :
                 /\ item.targetNodeId = node.references[k].targetId
                 /\ item.referenceTypeId = node.references[k].referenceTypeId
                 /\ item.isForward # node.references[k].isInverse}
    IN RemoveReferenceAt(node,
           IF m = {} THEN SizeMax ELSE (CHOOSE k \in m : \A j \in m : k <= j) - 1)

\* deleteOneWayReference: scan from the tail for the edge of the item
deleteOneWayReference(node, item) ==
    RemoveReferenceAt(node,
        ScanReferences(node.references, item, (Len(node.references) - 1) % SizeMax))

\* the end of Service_AddReferences_single: second is the outcome of the
\* insertion on the target; when it failed the first direction is removed
\* again and the status of that removal is ignored. The log records the
\* reference that has been added on both ends
RemoveFirstDirection(item, second) ==
    IF second.rv = Good
    THEN [st |-> Logged(second.st, <<"reference", item.sourceNodeId, item.referenceTypeId,
                                     item.targetNodeId, item.isForward>>),
          rv |-> Good]
    ELSE [st |-> UA_Server_editNode(second.st, item.sourceNodeId,
                     deleteOneWayReference(second.st.nodes[item.sourceNodeId],
                         DeleteReferencesItem(item.sourceNodeId, item.referenceTypeId,
                                              item.targetNodeId, item.isForward, FALSE))).st,
          rv |-> second.rv]

\* the second direction of Service_AddReferences_single: first is the outcome
\* of the insertion on the source
AddSecondDirection(st, item, fail, first) ==
    IF first.rv # Good THEN [st |-> st, rv |-> first.rv]
    ELSE RemoveFirstDirection(item,
             UA_Server_editNode(first.st, item.targetNodeId,
                 addOneWayReference(first.st.nodes[item.targetNodeId],
                     AddReferencesItem(item.targetNodeId, item.referenceTypeId,
                                       item.sourceNodeId, ~item.isForward),
                     fail = "second")))

\* Service_AddReferences_single; fail names the one-way insertion that is
\* made to run out of memory ("none", "first", "second")
Service_AddReferences_single(st, item, fail) ==
    IF item.targetServerUri > 0 THEN [st |-> st, rv |-> BadNotImplemented]
    ELSE AddSecondDirection(st, item, fail,
             UA_Server_editNode(st, item.sourceNodeId,
                 addOneWayReference(st.nodes[item.sourceNodeId], item, fail = "first")))

\* DeleteSecondDirection that edits the target also when the edit of the
\* source has failed
DeleteSecondDirection_IgnoresFirst(st, item, first) ==
    IF ~item.deleteBidirectional \/ item.serverIndex # 0
    THEN [st |-> first.st, rv |-> first.rv]
    ELSE UA_Server_editNode(first.st, item.targetNodeId,
             deleteOneWayReference(first.st.nodes[item.targetNodeId],
                 DeleteReferencesItem(item.targetNodeId, NullId,
                                      item.sourceNodeId, ~item.isForward, FALSE)))

\* the second direction of Service_DeleteReferences_single: the secondItem is
\* initialised, then isForward, sourceNodeId and targetNodeId.nodeId are set
DeleteSecondDirection(st, item, first) ==
    IF first.rv # Good THEN [st |-> st, rv |-> first.rv]
    ELSE IF ~item.deleteBidirectional \/ item.serverIndex # 0
         THEN [st |-> first.st, rv |-> Good]
         ELSE UA_Server_editNode(first.st, item.targetNodeId,
                  deleteOneWayReference(first.st.nodes[item.targetNodeId],
                      DeleteReferencesItem(item.targetNodeId, NullId,
                                           item.sourceNodeId, ~item.isForward, FALSE)))

\* Service_DeleteReferences_single
Service_DeleteReferences_single(st, item) ==
    DeleteSecondDirection(st, item,
        UA_Server_editNode(st, item.sourceNodeId,
            deleteOneWayReference(st.nodes[item.sourceNodeId], item)))

-----------------------------------------------------------------------------
(* Delete nodes *)

RECURSIVE CallDestructors(_, _, _, _)
\* the destructor loop of Service_DeleteNodes_single over the browse result
CallDestructors(st, refs, i, nodeId) ==
    IF i > Len(refs) THEN st
    ELSE LET typeId == refs[i].nodeId
         IN IF \/ ~Exists(st, typeId)
               \/ st.nodes[typeId].nodeClass # OBJECTTYPE
               \/ ~st.nodes[typeId].destructor
            THEN CallDestructors(st, refs, i + 1, nodeId)
            ELSE CallDestructors(
                   Logged(st, <<"destructor", typeId, nodeId, st.nodes[nodeId].instanceHandle>>),
                   refs, i + 1, nodeId)

RECURSIVE RemoveReferences(_, _, _)
\* the reference loop of Service_DeleteNodes_single: for references[i] of the
\* node, delete one way on the peer; the item's referenceTypeId is the null
\* NodeId that UA_DeleteReferencesItem_init has left
RemoveReferences(st, nodeId, i) ==
    IF i > Len(st.nodes[nodeId].references) THEN st
    ELSE LET e == st.nodes[nodeId].references[i]
         IN RemoveReferences(
                UA_Server_editNode(st, e.targetId,
                    deleteOneWayReference(st.nodes[e.targetId],
                        DeleteReferencesItem(e.targetId, NullId, nodeId, e.isInverse, FALSE))).st,
                nodeId, i + 1)

\* the object is destroyed before it is removed: the destructors of the
\* object types the browse finds are called
DestroyObject(st, nodeId) ==
    IF st.nodes[nodeId].nodeClass = OBJECT
    THEN CallDestructors(st,
             Service_Browse_single(st, nodeId, HASSUBTYPE, TRUE, TRUE, {OBJECTTYPE}).references,
             1, nodeId)
    ELSE st

\* Service_DeleteNodes_single that removes the targets of the forward edges
\* of the node together with the node
Service_DeleteNodes_single_Cascade(st, nodeId, deleteReferences) ==
    IF ~Exists(st, nodeId) THEN [st |-> st, rv |-> BadNodeIdUnknown]
    ELSE LET targets == {st.nodes[nodeId].references[k].targetId :
                            k \in {j \in 1..Len(st.nodes[nodeId].references) :
                                      ~st.nodes[nodeId].references[j].isInverse}}
             r == IF deleteReferences
                  THEN UA_NodeStore_remove(
                           RemoveReferences(DestroyObject(st, nodeId), nodeId, 1), nodeId)
                  ELSE UA_NodeStore_remove(DestroyObject(st, nodeId), nodeId)
         IN [r EXCEPT !.st.nodes = [u \in DOMAIN r.st.nodes \ targets |-> r.st.nodes[u]]]

\* Service_DeleteNodes_single
Service_DeleteNodes_single(st, nodeId, deleteReferences) ==
    IF ~Exists(st, nodeId) THEN [st |-> st, rv |-> BadNodeIdUnknown]
    ELSE IF deleteReferences
         THEN UA_NodeStore_remove(RemoveReferences(DestroyObject(st, nodeId), nodeId, 1), nodeId)
         ELSE UA_NodeStore_remove(DestroyObject(st, nodeId), nodeId)

-----------------------------------------------------------------------------
(* Consistency checks *)

TypeClasses == {DATATYPE, VARIABLETYPE, OBJECTTYPE, REFERENCETYPE}

\* checkParentReference that looks at the reference type before the parent
checkParentReference_ReferenceFirst(st, nodeClass, parentNodeId, referenceTypeId) ==
    IF ~Exists(st, referenceTypeId) THEN BadReferenceTypeIdInvalid
    ELSE IF st.nodes[referenceTypeId].nodeClass # REFERENCETYPE THEN BadReferenceTypeIdInvalid
    ELSE IF ~Exists(st, parentNodeId) THEN BadParentNodeIdInvalid
    ELSE IF st.nodes[referenceTypeId].isAbstract THEN BadReferenceNotAllowed
    ELSE IF nodeClass \in TypeClasses
         THEN IF referenceTypeId # HASSUBTYPE THEN BadReferenceNotAllowed
              ELSE IF st.nodes[parentNodeId].nodeClass # nodeClass THEN BadParentNodeIdInvalid
              ELSE Good
    ELSE IF ~isNodeInTree(st, referenceTypeId, HIERARCHICALREFERENCES, HASSUBTYPE)
         THEN BadReferenceTypeIdInvalid
    ELSE Good

\* checkParentReference that takes every reference type that is a subtype of
\* References for hierarchical
checkParentReference_AllReferences(st, nodeClass, parentNodeId, referenceTypeId) ==
    IF ~Exists(st, parentNodeId) THEN BadParentNodeIdInvalid
    ELSE IF ~Exists(st, referenceTypeId) THEN BadReferenceTypeIdInvalid
    ELSE IF st.nodes[referenceTypeId].nodeClass # REFERENCETYPE THEN BadReferenceTypeIdInvalid
    ELSE IF st.nodes[referenceTypeId].isAbstract THEN BadReferenceNotAllowed
    ELSE IF nodeClass \in TypeClasses
         THEN IF referenceTypeId # HASSUBTYPE THEN BadReferenceNotAllowed
              ELSE IF st.nodes[parentNodeId].nodeClass # nodeClass THEN BadParentNodeIdInvalid
              ELSE Good
    ELSE IF ~isNodeInTree(st, referenceTypeId, REFERENCES, HASSUBTYPE)
         THEN BadReferenceTypeIdInvalid
    ELSE Good

\* checkParentReference that does not compare the class of the supertype
checkParentReference_AnyClass(st, nodeClass, parentNodeId, referenceTypeId) ==
    IF ~Exists(st, parentNodeId) THEN BadParentNodeIdInvalid
    ELSE IF ~Exists(st, referenceTypeId) THEN BadReferenceTypeIdInvalid
    ELSE IF st.nodes[referenceTypeId].nodeClass # REFERENCETYPE THEN BadReferenceTypeIdInvalid
    ELSE IF st.nodes[referenceTypeId].isAbstract THEN BadReferenceNotAllowed
    ELSE IF nodeClass \in TypeClasses
         THEN IF referenceTypeId # HASSUBTYPE THEN BadReferenceNotAllowed ELSE Good
    ELSE IF ~isNodeInTree(st, referenceTypeId, HIERARCHICALREFERENCES, HASSUBTYPE)
         THEN BadReferenceTypeIdInvalid
    ELSE Good

\* checkParentReference that does not ask a type node for a hasSubtype
\* reference
checkParentReference_AnyReference(st, nodeClass, parentNodeId, referenceTypeId) ==
    IF ~Exists(st, parentNodeId) THEN BadParentNodeIdInvalid
    ELSE IF ~Exists(st, referenceTypeId) THEN BadReferenceTypeIdInvalid
    ELSE IF st.nodes[referenceTypeId].nodeClass # REFERENCETYPE THEN BadReferenceTypeIdInvalid
    ELSE IF st.nodes[referenceTypeId].isAbstract THEN BadReferenceNotAllowed
    ELSE IF nodeClass \in TypeClasses
         THEN IF st.nodes[parentNodeId].nodeClass # nodeClass THEN BadParentNodeIdInvalid
              ELSE Good
    ELSE IF ~isNodeInTree(st, referenceTypeId, HIERARCHICALREFERENCES, HASSUBTYPE)
         THEN BadReferenceTypeIdInvalid
    ELSE Good

\* checkParentReference
checkParentReference(st, nodeClass, parentNodeId, referenceTypeId) ==
    IF ~Exists(st, parentNodeId) THEN BadParentNodeIdInvalid
    ELSE IF ~Exists(st, referenceTypeId) THEN BadReferenceTypeIdInvalid
    ELSE IF st.nodes[referenceTypeId].nodeClass # REFERENCETYPE THEN BadReferenceTypeIdInvalid
    ELSE IF st.nodes[referenceTypeId].isAbstract THEN BadReferenceNotAllowed
    ELSE IF nodeClass \in TypeClasses
         THEN IF referenceTypeId # HASSUBTYPE THEN BadReferenceNotAllowed
              ELSE IF st.nodes[parentNodeId].nodeClass # nodeClass THEN BadParentNodeIdInvalid
              ELSE Good
    ELSE IF ~isNodeInTree(st, referenceTypeId, HIERARCHICALREFERENCES, HASSUBTYPE)
         THEN BadReferenceTypeIdInvalid
    ELSE Good

\* UA_Variant_isScalar
UA_Variant_isScalar(v) == v.type # NullId /\ v.scalar

\* UA_findDataType: the builtin data types have a type description
UA_findDataType(dataType) == dataType \in {INT32, STRINGTYPE}

\* compatibleValueRankArrayDimensions
compatibleValueRankArrayDimensions(valueRank, arrayDimensionsSize) ==
    IF valueRank = -3 THEN (IF arrayDimensionsSize > 1 THEN BadTypeMismatch ELSE Good)
    ELSE IF valueRank = -2 THEN Good
    ELSE IF valueRank = -1 THEN (IF arrayDimensionsSize > 0 THEN BadTypeMismatch ELSE Good)
    ELSE IF valueRank = 0 THEN (IF arrayDimensionsSize < 1 THEN BadTypeMismatch ELSE Good)
    ELSE IF valueRank < 0 \/ arrayDimensionsSize # valueRank THEN BadTypeMismatch
    ELSE Good

\* compatibleValueRanks
compatibleValueRanks(valueRank, constraintValueRank) ==
    IF constraintValueRank = -3
    THEN (IF valueRank # -1 /\ valueRank # 1 THEN BadTypeMismatch ELSE Good)
    ELSE IF constraintValueRank = -2 THEN Good
    ELSE IF constraintValueRank = -1
         THEN (IF valueRank # -1 THEN BadTypeMismatch ELSE Good)
    ELSE IF constraintValueRank = 0
         THEN (IF valueRank < 0 THEN BadTypeMismatch ELSE Good)
    ELSE IF valueRank # constraintValueRank THEN BadTypeMismatch
    ELSE Good

\* compatibleArrayDimensions: pointwise equal where both are specified, 0 on
\* the side of the variable type is unconstrained
compatibleArrayDimensions(dims, vtDims) ==
    IF Len(vtDims) = 0 \/ Len(dims) = 0 THEN Good
    ELSE IF Len(dims) # Len(vtDims) THEN BadTypeMismatch
    ELSE IF \E k \in 1..Len(dims) : vtDims[k] # 0 /\ vtDims[k] # dims[k]
         THEN BadTypeMismatch
    ELSE Good

\* typeCheckValue: an empty value passes; the type of the value has to be
\* the data type or one of its subtypes, a scalar needs a scalar value rank
typeCheckValue(st, dataType, valueRank, value) ==
    IF value.type = NullId THEN Good
    ELSE IF ~isNodeInTree(st, value.type, dataType, HASSUBTYPE) THEN BadTypeMismatch
    ELSE IF value.scalar /\ valueRank >= 0 THEN BadTypeMismatch
    ELSE IF ~value.scalar /\ valueRank = -1 THEN BadTypeMismatch
    ELSE Good

\* a UA_DataSource: whether it has a read callback, and the status and the
\* value the read callback gives
DataSource(read, status, value) == [read |-> read, status |-> status, value |-> value]

\* readValueAttribute: the value of the node, read from the data source if
\* the node has one (a node with a data source has a read callback)
readValueAttribute(node) ==
    IF node.valueSource = "Data" THEN [rv |-> Good, value |-> node.value]
    ELSE [rv |-> node.value.status, value |-> node.value.value]

\* UA_Server_writeValue of the "null" value: the data of the node is set; a
\* data source gets the value and the node stays as it is
UA_Server_writeValue(node, v) ==
    IF node.valueSource = "Data" THEN [node EXCEPT !.value = v] ELSE node

\* a variable type that is abstract is rejected for every node class
AbstractTypeRejected_AnyClass(node, vt) == vt.isAbstract

\* an abstract variable type is rejected for a Variable
AbstractTypeRejected(node, vt) == node.nodeClass = VARIABLE_ /\ vt.isAbstract

\* typeCheckVariableNode that does not compare the data type with the one
\* of the variable type
typeCheckVariableNode_AnyDataType(st, node0, typeDef) ==
    LET node1 == IF UA_NodeId_isNull(node0.dataType)
                 THEN [node0 EXCEPT !.dataType = BASEDATATYPE] ELSE node0
    IN
    IF node1.nodeId = BASEDATAVARIABLETYPE THEN [node |-> node1, rv |-> Good]
    ELSE IF ~Exists(st, typeDef) THEN [node |-> node1, rv |-> BadTypeDefinitionInvalid]
    ELSE
    LET vt == st.nodes[typeDef]
        rd == readValueAttribute(node1)
        empty == rd.value.type = NullId
        \* the "null" value of a concrete data type
        v == IF node1.valueRank = 1
             THEN [type |-> node1.dataType, scalar |-> FALSE, data |-> 0]
             ELSE [type |-> node1.dataType, scalar |-> TRUE, data |-> 0]
        node2 == IF empty /\ UA_findDataType(node1.dataType)
                 THEN UA_Server_writeValue(node1, v) ELSE node1
        value == IF empty /\ UA_findDataType(node1.dataType) THEN v ELSE rd.value
        noDims == Len(node2.arrayDimensions) = 0
        node3 == IF noDims /\ UA_Variant_isScalar(value) /\ node2.valueRank = 0
                 THEN [node2 EXCEPT !.valueRank = vt.valueRank] ELSE node2
        arrayDims == IF /\ noDims
                        /\ ~(UA_Variant_isScalar(value) /\ node2.valueRank = 0)
                        /\ value.type # NullId /\ ~UA_Variant_isScalar(value)
                        /\ node2.valueRank = 1
                     THEN 1 ELSE Len(node2.arrayDimensions)
        c1 == compatibleValueRankArrayDimensions(node3.valueRank, arrayDims)
        c2 == compatibleValueRanks(node3.valueRank, vt.valueRank)
        c3 == compatibleArrayDimensions(node3.arrayDimensions, vt.arrayDimensions)
    IN IF vt.nodeClass # VARIABLETYPE THEN [node |-> node1, rv |-> BadTypeDefinitionInvalid]
       ELSE IF AbstractTypeRejected(node1, vt)
            THEN [node |-> node1, rv |-> BadTypeDefinitionInvalid]
       ELSE IF rd.rv # Good THEN [node |-> node1, rv |-> rd.rv]
       ELSE IF c1 # Good THEN [node |-> node3, rv |-> c1]
       ELSE IF c2 # Good THEN [node |-> node3, rv |-> c2]
       ELSE IF c3 # Good THEN [node |-> node3, rv |-> c3]
       ELSE IF node3.valueSource = "Data"
            THEN [node |-> node3,
                  rv |-> typeCheckValue(st, node3.dataType, node3.valueRank, node3.value)]
       ELSE [node |-> node3, rv |-> Good]

\* typeCheckVariableNode, the callback of typeCheckNode
typeCheckVariableNode(st, node0, typeDef) ==
    LET node1 == IF UA_NodeId_isNull(node0.dataType)
                 THEN [node0 EXCEPT !.dataType = BASEDATATYPE] ELSE node0
    IN
    IF node1.nodeId = BASEDATAVARIABLETYPE THEN [node |-> node1, rv |-> Good]
    ELSE IF ~Exists(st, typeDef) THEN [node |-> node1, rv |-> BadTypeDefinitionInvalid]
    ELSE
    LET vt == st.nodes[typeDef]
        rd == readValueAttribute(node1)
        empty == rd.value.type = NullId
        \* the "null" value of a concrete data type
        v == IF node1.valueRank = 1
             THEN [type |-> node1.dataType, scalar |-> FALSE, data |-> 0]
             ELSE [type |-> node1.dataType, scalar |-> TRUE, data |-> 0]
        node2 == IF empty /\ UA_findDataType(node1.dataType)
                 THEN UA_Server_writeValue(node1, v) ELSE node1
        value == IF empty /\ UA_findDataType(node1.dataType) THEN v ELSE rd.value
        noDims == Len(node2.arrayDimensions) = 0
        node3 == IF noDims /\ UA_Variant_isScalar(value) /\ node2.valueRank = 0
                 THEN [node2 EXCEPT !.valueRank = vt.valueRank] ELSE node2
        arrayDims == IF /\ noDims
                        /\ ~(UA_Variant_isScalar(value) /\ node2.valueRank = 0)
                        /\ value.type # NullId /\ ~UA_Variant_isScalar(value)
                        /\ node2.valueRank = 1
                     THEN 1 ELSE Len(node2.arrayDimensions)
        c1 == compatibleValueRankArrayDimensions(node3.valueRank, arrayDims)
        c2 == compatibleValueRanks(node3.valueRank, vt.valueRank)
        c3 == compatibleArrayDimensions(node3.arrayDimensions, vt.arrayDimensions)
    IN IF vt.nodeClass # VARIABLETYPE THEN [node |-> node1, rv |-> BadTypeDefinitionInvalid]
       ELSE IF AbstractTypeRejected(node1, vt)
            THEN [node |-> node1, rv |-> BadTypeDefinitionInvalid]
       ELSE IF ~isNodeInTree(st, node1.dataType, vt.dataType, HASSUBTYPE)
            THEN [node |-> node1, rv |-> BadTypeMismatch]
       ELSE IF rd.rv # Good THEN [node |-> node1, rv |-> rd.rv]
       ELSE IF c1 # Good THEN [node |-> node3, rv |-> c1]
       ELSE IF c2 # Good THEN [node |-> node3, rv |-> c2]
       ELSE IF c3 # Good THEN [node |-> node3, rv |-> c3]
       ELSE IF node3.valueSource = "Data"
            THEN [node |-> node3,
                  rv |-> typeCheckValue(st, node3.dataType, node3.valueRank, node3.value)]
       ELSE [node |-> node3, rv |-> Good]

\* typeCheckNode that takes every node class for one without type check
typeCheckNode_Unchecked(st, nodeId, nodeClass, parentId, typeId) ==
    [st |-> st, rv |-> Good]

\* typeCheckNode
typeCheckNode(st, nodeId, nodeClass, parentId, typeId) ==
    IF nodeClass \notin {VARIABLE_, VARIABLETYPE} THEN [st |-> st, rv |-> Good]
    ELSE UA_Server_editNode(st, nodeId,
             typeCheckVariableNode(st, st.nodes[nodeId],
                 IF nodeClass = VARIABLE_ THEN typeId ELSE parentId))

-----------------------------------------------------------------------------
(* Instantiate node, add node *)

\* a NULL pointer passed for a NodeId
NullPtr == -1

\* the handle the constructor of an object type returns for an instance
ConstructorHandle(typeId, instance) == instance

\* setObjectInstanceHandle, the callback of the constructor call
setObjectInstanceHandle(node, typeId) ==
    IF node.nodeClass # OBJECT THEN [node |-> node, rv |-> BadNodeClassInvalid, called |-> FALSE]
    ELSE IF node.instanceHandle = 0
         THEN [node |-> [node EXCEPT !.instanceHandle = ConstructorHandle(typeId, node.nodeId)],
               rv |-> Good, called |-> TRUE]
         ELSE [node |-> node, rv |-> Good, called |-> FALSE]

\* the first reference description with the browse name
FirstNamed(br, browseName) ==
    IF br.statusCode # Good THEN [rv |-> br.statusCode, id |-> NullId]
    ELSE LET Same(rd) == rd.browseName = browseName
             found == SelectSeq(br.references, Same)
         IN [rv |-> Good, id |-> IF found = <<>> THEN NullId ELSE found[1].nodeId]

\* instanceFindAggregateByBrowsename whose comparison of the browse names
\* never succeeds
instanceFindAggregateByBrowsename_NoMatch(st, searchInstance, browseName) ==
    [rv |-> Service_Browse_single(st, searchInstance, AGGREGATES, TRUE, FALSE,
                                  {OBJECT, VARIABLE_, METHOD}).statusCode,
     id |-> NullId]

\* instanceFindAggregateByBrowsename: the first aggregate of searchInstance
\* with the browse name, the null NodeId when there is none
instanceFindAggregateByBrowsename(st, searchInstance, browseName) ==
    FirstNamed(Service_Browse_single(st, searchInstance, AGGREGATES, TRUE, FALSE,
                                     {OBJECT, VARIABLE_, METHOD}),
               browseName)

\* the copy of a type member whose namespace index is not set
CopyOfChild_NoNamespace(st, childId, destinationNodeId) ==
    [UA_NodeStore_getCopy(st, childId) EXCEPT !.nodeId = NullId]

\* the copy of a type member in copyChildNodes: the identifier is reset, the
\* namespace is the one of the destination
CopyOfChild(st, childId, destinationNodeId) ==
    [UA_NodeStore_getCopy(st, childId) EXCEPT !.nodeId = NsOf(destinationNodeId) * NsBase]

\* a cleanup label that hands the status back and leaves the node
FinishCleanup_Keep(r, nodeId) == r

\* the cleanup label of UA_Server_addNode_finish, r the state and the status
\* it is reached with; a process that has crashed never reaches it
FinishCleanup(r, nodeId) ==
    IF r.rv \in {Good, Crash} THEN r
    ELSE [st |-> Service_DeleteNodes_single(r.st, nodeId, TRUE).st, rv |-> r.rv]

RECURSIVE UA_Server_addNode(_, _, _, _, _, _)
RECURSIVE UA_Server_addNode_finish(_, _, _, _, _, _, _)
RECURSIVE instantiateNode(_, _, _, _, _)
RECURSIVE CopyHierarchy(_, _, _, _, _, _)
RECURSIVE copyChildNodes(_, _, _, _)
RECURSIVE CopyChildren(_, _, _, _, _, _)

\* the end of a pass of the loop of copyChildNodes, r the outcome of the pass:
\* a non-good status of an Object or Variable child ends the loop (stop), the
\* status of a Method child is overwritten by the next pass
NextChild(r, stop, refs, i, destinationNodeId, d) ==
    IF stop /\ r.rv # Good THEN [st |-> r.st, rv |-> r.rv]
    ELSE CopyChildren(r.st, refs, i + 1, destinationNodeId, r.rv, d)

\* the body of the loop of copyChildNodes that passes over a Method child
\* without referring to it
CopyChild_MethodSkipped(st, refs, i, destinationNodeId, d, f) ==
    LET rd == refs[i]
    IN
    IF f.rv # Good THEN [st |-> st, rv |-> f.rv]
    ELSE IF UA_NodeId_isNull(f.id)
    THEN IF rd.nodeClass = METHOD
         THEN CopyChildren(st, refs, i + 1, destinationNodeId, Good, d)
         ELSE IF ~Exists(st, rd.nodeId) THEN [st |-> st, rv |-> BadNodeIdInvalid]
         ELSE LET node == CopyOfChild(st, rd.nodeId, destinationNodeId)
                  vt == getNodeType(st, node)
              IN NextChild(UA_Server_addNode(st, node, destinationNodeId,
                                             rd.referenceTypeId,
                                             IF vt = NullId THEN NullPtr ELSE vt, d - 1),
                           TRUE, refs, i, destinationNodeId, d)
    ELSE IF rd.nodeClass \in {VARIABLE_, OBJECT}
         THEN NextChild(copyChildNodes(st, rd.nodeId, f.id, d - 1),
                        TRUE, refs, i, destinationNodeId, d)
         ELSE CopyChildren(st, refs, i + 1, destinationNodeId, Good, d)

\* the body of the loop of copyChildNodes for refs[i], f the outcome of the
\* search for a child of the destination with the same browse name
CopyChild(st, refs, i, destinationNodeId, d, f) ==
    LET rd == refs[i]
    IN
    IF f.rv # Good THEN [st |-> st, rv |-> f.rv]
    ELSE IF UA_NodeId_isNull(f.id)
    THEN IF rd.nodeClass = METHOD
         THEN NextChild(Service_AddReferences_single(st,
                            AddReferencesItem(destinationNodeId, rd.referenceTypeId,
                                              rd.nodeId, TRUE), "none"),
                        FALSE, refs, i, destinationNodeId, d)
         ELSE IF ~Exists(st, rd.nodeId) THEN [st |-> st, rv |-> BadNodeIdInvalid]
         ELSE LET node == CopyOfChild(st, rd.nodeId, destinationNodeId)
                  vt == getNodeType(st, node)
              IN NextChild(UA_Server_addNode(st, node, destinationNodeId,
                                             rd.referenceTypeId,
                                             IF vt = NullId THEN NullPtr ELSE vt, d - 1),
                           TRUE, refs, i, destinationNodeId, d)
    ELSE IF rd.nodeClass \in {VARIABLE_, OBJECT}
         THEN NextChild(copyChildNodes(st, rd.nodeId, f.id, d - 1),
                        TRUE, refs, i, destinationNodeId, d)
         ELSE CopyChildren(st, refs, i + 1, destinationNodeId, Good, d)

\* the loop of copyChildNodes over the browse result; retval is the status
\* of the last pass
CopyChildren(st, refs, i, destinationNodeId, retval, d) ==
    IF i > Len(refs) \/ retval = Crash THEN [st |-> st, rv |-> retval]
    ELSE CopyChild(st, refs, i, destinationNodeId, d,
                   instanceFindAggregateByBrowsename(st, destinationNodeId,
                                                     refs[i].browseName))

\* copyChildNodes
copyChildNodes(st, sourceNodeId, destinationNodeId, d) ==
    IF d <= 0 THEN [st |-> st, rv |-> Crash]
    ELSE LET br == Service_Browse_single(st, sourceNodeId, AGGREGATES, TRUE, FALSE,
                                         {OBJECT, VARIABLE_, METHOD})
         IN IF br.statusCode # Good THEN [st |-> st, rv |-> br.statusCode]
            ELSE CopyChildren(st, br.references, 1, destinationNodeId, Good, d)

\* the end of a pass of the loop of instantiateNode over the type hierarchy,
\* r the outcome of the pass: retval |= copyChildNodes
NextSupertype(r, hierarchy, i, nodeId, retval, d) ==
    CopyHierarchy(r.st, hierarchy, i + 1, nodeId, StatusOr(retval, r.rv), d)

\* the loop of instantiateNode that walks the type hierarchy from its end
CopyHierarchy_SupertypesFirst(st, hierarchy, i, nodeId, retval, d) ==
    IF i > Len(hierarchy) \/ retval = Crash THEN [st |-> st, rv |-> retval]
    ELSE NextSupertype(copyChildNodes(st, hierarchy[Len(hierarchy) + 1 - i], nodeId, d),
                       hierarchy, i, nodeId, retval, d)

\* the loop of instantiateNode over the type hierarchy
CopyHierarchy(st, hierarchy, i, nodeId, retval, d) ==
    IF i > Len(hierarchy) \/ retval = Crash THEN [st |-> st, rv |-> retval]
    ELSE NextSupertype(copyChildNodes(st, hierarchy[i], nodeId, d),
                       hierarchy, i, nodeId, retval, d)

\* the constructor call of instantiateNode: typenode is the type node that
\* was fetched before the members were copied
CallConstructor(st, typenode, nodeId, typeId) ==
    LET h == IF Exists(st, nodeId)
             THEN setObjectInstanceHandle(st.nodes[nodeId], typeId)
             ELSE [node |-> typenode, rv |-> BadNodeIdUnknown, called |-> FALSE]
    IN IF typenode.nodeClass = OBJECTTYPE /\ typenode.constructor /\ h.called
       THEN Logged(PutNode(st, h.node), <<"constructor", typeId, nodeId>>)
       ELSE st

\* the custom callback of instantiateNode, added the outcome of adding the
\* HasTypeDefinition reference
CallInstantiationCallback(added, nodeId, typeId) ==
    IF added.rv # Good THEN added
    ELSE [st |-> Logged(added.st, <<"callback", nodeId, typeId>>), rv |-> Good]

\* the end of instantiateNode that calls the custom callback before it adds
\* the HasTypeDefinition reference
ConstructInstance_CallbackFirst(copied, typenode, nodeId, typeId) ==
    IF copied.rv # Good THEN copied
    ELSE Service_AddReferences_single(
             Logged(CallConstructor(copied.st, typenode, nodeId, typeId),
                    <<"callback", nodeId, typeId>>),
             AddReferencesItem(nodeId, HASTYPEDEFINITION, typeId, TRUE), "none")

\* the end of instantiateNode, copied the outcome of copying the members of
\* the type and its supertypes
ConstructInstance(copied, typenode, nodeId, typeId) ==
    IF copied.rv # Good THEN copied
    ELSE CallInstantiationCallback(
             Service_AddReferences_single(
                 CallConstructor(copied.st, typenode, nodeId, typeId),
                 AddReferencesItem(nodeId, HASTYPEDEFINITION, typeId, TRUE), "none"),
             nodeId, typeId)

\* instantiateNode
instantiateNode(st, nodeId, nodeClass, typeId, d) ==
    IF nodeClass \notin {VARIABLE_, OBJECT} THEN [st |-> st, rv |-> Good]
    ELSE IF ~Exists(st, typeId) THEN [st |-> st, rv |-> BadTypeDefinitionInvalid]
    ELSE IF \/ st.nodes[typeId].nodeClass #
                  (IF nodeClass = VARIABLE_ THEN VARIABLETYPE ELSE OBJECTTYPE)
            \/ st.nodes[typeId].isAbstract
    THEN [st |-> st, rv |-> BadTypeDefinitionInvalid]
    ELSE ConstructInstance(
             CopyHierarchy(st, getTypeHierarchy(st, typeId), 1, nodeId, Good, d),
             st.nodes[typeId], nodeId, typeId)

\* UA_Server_addNode_begin that does not look at the status of the insertion
UA_Server_addNode_begin_Unchecked(st, node) ==
    IF NsOf(node.nodeId) >= NamespacesSize
    THEN [st |-> st, rv |-> BadNodeIdInvalid, id |-> NullId]
    ELSE [st |-> UA_NodeStore_insert(st, node).st, rv |-> Good, id |-> node.nodeId]

\* UA_Server_addNode_begin that does not look at the namespace index
UA_Server_addNode_begin_AnyNamespace(st, node) ==
    UA_NodeStore_insert(st, node)

\* UA_Server_addNode_begin
UA_Server_addNode_begin(st, node) ==
    IF NsOf(node.nodeId) >= NamespacesSize
    THEN [st |-> st, rv |-> BadNodeIdInvalid, id |-> NullId]
    ELSE UA_NodeStore_insert(st, node)

\* the parent reference of UA_Server_addNode_finish, inst the outcome of the
\* instantiation
AddParentReference(inst, nodeId, parentNodeId, referenceTypeId) ==
    IF inst.rv # Good \/ UA_NodeId_isNull(parentNodeId) THEN inst
    ELSE Service_AddReferences_single(inst.st,
             AddReferencesItem(nodeId, referenceTypeId, parentNodeId, FALSE), "none")

\* the instantiation of UA_Server_addNode_finish, tc the outcome of the type
\* check
InstantiateChecked(tc, nodeId, nodeClass, parentNodeId, referenceTypeId, typeDefinition, d) ==
    IF tc.rv # Good THEN tc
    ELSE AddParentReference(instantiateNode(tc.st, nodeId, nodeClass, typeDefinition, d),
                            nodeId, parentNodeId, referenceTypeId)

\* the steps of UA_Server_addNode_finish without the standard type definition
FinishSteps_NoDefault(st, nodeId, nodeClass, parentNodeId, referenceTypeId, typeDefinition, d) ==
    LET checked == IF \/ nodeClass # OBJECT
                      \/ ~UA_NodeId_isNull(parentNodeId)
                      \/ ~UA_NodeId_isNull(referenceTypeId)
                   THEN checkParentReference(st, nodeClass, parentNodeId, referenceTypeId)
                   ELSE Good
    IN
    IF checked # Good THEN [st |-> st, rv |-> checked]
    ELSE IF typeDefinition = NullPtr THEN [st |-> st, rv |-> Crash]
    ELSE InstantiateChecked(typeCheckNode(st, nodeId, nodeClass, parentNodeId, typeDefinition),
                            nodeId, nodeClass, parentNodeId, referenceTypeId,
                            typeDefinition, d)

\* the steps of UA_Server_addNode_finish that skip the parent check for a
\* node of any class without parent and reference type
FinishSteps_AnyClassSkips(st, nodeId, nodeClass, parentNodeId, referenceTypeId, typeDefinition, d) ==
    LET checked == IF \/ ~UA_NodeId_isNull(parentNodeId)
                      \/ ~UA_NodeId_isNull(referenceTypeId)
                   THEN checkParentReference(st, nodeClass, parentNodeId, referenceTypeId)
                   ELSE Good
        typeDef == IF ~UA_NodeId_isNull(typeDefinition) THEN typeDefinition
                   ELSE IF nodeClass = VARIABLE_ THEN BASEDATAVARIABLETYPE
                   ELSE IF nodeClass = OBJECT THEN BASEOBJECTTYPE
                   ELSE typeDefinition
    IN
    IF checked # Good THEN [st |-> st, rv |-> checked]
    ELSE IF typeDefinition = NullPtr THEN [st |-> st, rv |-> Crash]
    ELSE InstantiateChecked(typeCheckNode(st, nodeId, nodeClass, parentNodeId, typeDef),
                            nodeId, nodeClass, parentNodeId, referenceTypeId, typeDef, d)

\* the steps of UA_Server_addNode_finish before the cleanup label
FinishSteps(st, nodeId, nodeClass, parentNodeId, referenceTypeId, typeDefinition, d) ==
    LET checked == IF \/ nodeClass # OBJECT
                      \/ ~UA_NodeId_isNull(parentNodeId)
                      \/ ~UA_NodeId_isNull(referenceTypeId)
                   THEN checkParentReference(st, nodeClass, parentNodeId, referenceTypeId)
                   ELSE Good
        typeDef == IF ~UA_NodeId_isNull(typeDefinition) THEN typeDefinition
                   ELSE IF nodeClass = VARIABLE_ THEN BASEDATAVARIABLETYPE
                   ELSE IF nodeClass = OBJECT THEN BASEOBJECTTYPE
                   ELSE typeDefinition
    IN
    IF checked # Good THEN [st |-> st, rv |-> checked]
    ELSE IF typeDefinition = NullPtr THEN [st |-> st, rv |-> Crash]
    ELSE InstantiateChecked(typeCheckNode(st, nodeId, nodeClass, parentNodeId, typeDef),
                            nodeId, nodeClass, parentNodeId, referenceTypeId, typeDef, d)

\* UA_Server_addNode_finish; every failure goes through the cleanup label
UA_Server_addNode_finish(st, nodeId, nodeClass, parentNodeId, referenceTypeId, typeDefinition, d) ==
    FinishCleanup(FinishSteps(st, nodeId, nodeClass, parentNodeId, referenceTypeId,
                              typeDefinition, d),
                  nodeId)

\* the end of UA_Server_addNode: the addedNodeId is handed out when finish
\* has succeeded
AddedNodeId(finished, id) ==
    [st |-> finished.st, rv |-> finished.rv,
     id |-> IF finished.rv = Good THEN id ELSE NullId]

\* UA_Server_addNode_finish for the node that UA_Server_addNode has begun
FinishBegun(begun, nodeClass, parentNodeId, referenceTypeId, typeDefinition, d) ==
    IF begun.rv # Good THEN begun
    ELSE AddedNodeId(UA_Server_addNode_finish(begun.st, begun.id, nodeClass, parentNodeId,
                                              referenceTypeId, typeDefinition, d),
                     begun.id)

\* UA_Server_addNode: begin, then finish; id is the addedNodeId
UA_Server_addNode(st, node, parentNodeId, referenceTypeId, typeDefinition, d) ==
    IF d <= 0 THEN [st |-> st, rv |-> Crash, id |-> NullId]
    ELSE FinishBegun(UA_Server_addNode_begin(st, node), node.nodeClass,
                     parentNodeId, referenceTypeId, typeDefinition, d)

\* the instantiationCallback is NULL: no callback is called
WithoutCallback(r) ==
    [r EXCEPT !.st.log = SelectSeq(r.st.log, LAMBDA ev : ev[1] # "callback")]

\* the variable node that UA_Server_addDataSourceVariableNode makes of the
\* attributes; the value that was read is dropped, the data source set
DataSourceVariableNode(requestedNewNodeId, browseName, attr, dataSource) ==
    [UA_NodeStore_newNode(VARIABLE_) EXCEPT
        !.nodeId = requestedNewNodeId, !.browseName = browseName,
        !.dataType = attr.dataType, !.valueRank = attr.valueRank,
        !.arrayDimensions = attr.arrayDimensions,
        !.valueSource = "DataSource", !.value = dataSource]

\* UA_Server_addDataSourceVariableNode that adds the node whatever the read gives
ReadDataSource_Ignored(st, requestedNewNodeId, dataSource) ==
    [st |-> Logged(st, <<"read", requestedNewNodeId>>), rv |-> Good]

\* the read of UA_Server_addDataSourceVariableNode
ReadDataSource(st, requestedNewNodeId, dataSource) ==
    IF dataSource.read
    THEN [st |-> Logged(st, <<"read", requestedNewNodeId>>), rv |-> dataSource.status]
    ELSE [st |-> st, rv |-> BadTypeMismatch]

\* the rest of UA_Server_addDataSourceVariableNode, rd the outcome of the read
AddRead(rd, node, parentNodeId, referenceTypeId, typeDefinition) ==
    IF rd.rv # Good THEN [st |-> rd.st, rv |-> rd.rv, id |-> NullId]
    ELSE WithoutCallback(UA_Server_addNode(rd.st, node, parentNodeId, referenceTypeId,
                                           typeDefinition, MaxDepth))

\* UA_Server_addDataSourceVariableNode
UA_Server_addDataSourceVariableNode(st, requestedNewNodeId, parentNodeId, referenceTypeId, browseName, typeDefinition, attr, dataSource) ==
    AddRead(ReadDataSource(st, requestedNewNodeId, dataSource),
            DataSourceVariableNode(requestedNewNodeId, browseName, attr, dataSource),
            parentNodeId, referenceTypeId, typeDefinition)

\* the method node that UA_Server_addMethodNode makes of the attributes
MethodNode(requestedNewNodeId, browseName) ==
    [UA_NodeStore_newNode(METHOD) EXCEPT
        !.nodeId = requestedNewNodeId, !.browseName = browseName]

\* the InputArguments or OutputArguments variable: a null id in the namespace
\* of the method (the method is not Server_GetMonitoredItems), the array of
\* arguments as value
ArgumentsVariableNode(newMethodId, browseName) ==
    [UA_NodeStore_newNode(VARIABLE_) EXCEPT
        !.nodeId = NsOf(newMethodId) * NsBase, !.browseName = browseName,
        !.value = ArrayValue(ARGUMENT), !.valueRank = 1, !.dataType = BASEDATATYPE]

\* the status of adding the variable is not looked at
AddedArguments(added, method) ==
    [st |-> added.st, rv |-> IF added.rv = Crash THEN Crash ELSE method.rv,
     id |-> method.id]

\* if(argumentsSize > 0): the variable is added below the method
AddArgumentsVariable(method, browseName, argumentsSize) ==
    IF argumentsSize <= 0 \/ method.rv = Crash THEN method
    ELSE AddedArguments(
             UA_Server_addNode(method.st, ArgumentsVariableNode(method.id, browseName),
                               method.id, HASPROPERTY, PROPERTYTYPE, MaxDepth),
             method)

\* the rest of UA_Server_addMethodNode, method the outcome of adding the method node
AddArguments(method, inputArgumentsSize, outputArgumentsSize) ==
    IF method.rv # Good THEN [st |-> method.st, rv |-> method.rv, id |-> NullId]
    ELSE AddArgumentsVariable(
             AddArgumentsVariable(method, "InputArguments", inputArgumentsSize),
             "OutputArguments", outputArgumentsSize)

\* UA_Server_addMethodNode
UA_Server_addMethodNode(st, requestedNewNodeId, parentNodeId, referenceTypeId, browseName, inputArgumentsSize, outputArgumentsSize) ==
    WithoutCallback(
        AddArguments(UA_Server_addNode(st, MethodNode(requestedNewNodeId, browseName),
                                       parentNodeId, referenceTypeId, NullId, MaxDepth),
                     inputArgumentsSize, outputArgumentsSize))

-----------------------------------------------------------------------------
(* The process-wide lock: c is its nesting count *)

\* UA_RCU_LOCK
UA_RCU_LOCK(c) == c + 1

\* UA_RCU_UNLOCK
UA_RCU_UNLOCK(c) == c - 1

\* UA_RCU_LOCK(); one call into the services; UA_RCU_UNLOCK(); as in
\* UA_Server_addReference, UA_Server_deleteNode, UA_Server_deleteReference
\* and the node setters
CriticalSection(c) == UA_RCU_UNLOCK(UA_RCU_LOCK(c))

\* the lock in UA_Server_addDataSourceVariableNode: a return before the lock
\* when the read has failed; else the lock is taken to copy the attributes,
\* taken again to add the node, and released once
Rcu_addDataSourceVariableNode(c, dataSource) ==
    IF ~dataSource.read \/ dataSource.status # Good THEN c
    ELSE UA_RCU_UNLOCK(UA_RCU_LOCK(UA_RCU_LOCK(c)))

\* the lock in UA_Server_addMethodNode: a critical section for the method
\* node with status retval and, when it was added, one for each arguments
\* variable
Rcu_addMethodNode(c, retval, inputArgumentsSize, outputArgumentsSize) ==
    LET method == CriticalSection(c)
        input == IF inputArgumentsSize > 0 THEN CriticalSection(method) ELSE method
    IN IF retval # Good THEN method
       ELSE IF outputArgumentsSize > 0 THEN CriticalSection(input) ELSE input

-----------------------------------------------------------------------------
(* Node setters *)

\* setOLM, the callback of UA_Server_setObjectTypeNode_lifecycleManagement
setOLM(node, olm) ==
    IF node.nodeClass # OBJECTTYPE THEN [node |-> node, rv |-> BadNodeClassInvalid]
    ELSE [node |-> [node EXCEPT !.constructor = olm.constructor,
                                !.destructor = olm.destructor],
          rv |-> Good]

\* UA_Server_setObjectTypeNode_lifecycleManagement
UA_Server_setObjectTypeNode_lifecycleManagement(st, nodeId, olm) ==
    UA_Server_editNode(st, nodeId, setOLM(st.nodes[nodeId], olm))

-----------------------------------------------------------------------------
(* Create nodes from attribute descriptions *)

\* an AddNodesItem with its decoded attributes
AddNodesItem(class, id, name, parent, ref, typeDef) ==
    [nodeClass |-> class, requestedNewNodeId |-> id, browseName |-> name,
     parentNodeId |-> parent, referenceTypeId |-> ref, typeDefinition |-> typeDef,
     isAbstract |-> FALSE, dataType |-> NullId, valueRank |-> 0,
     arrayDimensions |-> <<>>, value |-> NoValue]

VariableItem(class, id, name, parent, ref, typeDef, dataType, valueRank, value) ==
    [AddNodesItem(class, id, name, parent, ref, typeDef) EXCEPT
        !.dataType = dataType, !.valueRank = valueRank, !.value = value]

\* createNodeFromAttributes: copyStandardAttributes and the attributes of the class
createNodeFromAttributes(item) ==
    LET node == [UA_NodeStore_newNode(item.nodeClass) EXCEPT
                    !.nodeId = item.requestedNewNodeId, !.browseName = item.browseName]
    IN IF item.nodeClass \in {VARIABLE_, VARIABLETYPE}
       THEN [node |-> [node EXCEPT !.dataType = item.dataType,
                                   !.valueRank = item.valueRank,
                                   !.arrayDimensions = item.arrayDimensions,
                                   !.value = item.value,
                                   !.isAbstract = (item.nodeClass = VARIABLETYPE /\ item.isAbstract)],
             rv |-> Good]
       ELSE IF item.nodeClass \in {OBJECT, VIEW}
       THEN [node |-> node, rv |-> Good]
       ELSE IF item.nodeClass \in {OBJECTTYPE, REFERENCETYPE, DATATYPE}
       THEN [node |-> [node EXCEPT !.isAbstract = item.isAbstract], rv |-> Good]
       ELSE [node |-> node, rv |-> BadNodeClassInvalid]

\* __UA_Server_addNode
UA_Server_addNode_item(st, item) ==
    LET created == createNodeFromAttributes(item)
    IN IF created.rv # Good THEN [st |-> st, rv |-> created.rv, id |-> NullId]
       ELSE UA_Server_addNode(st, created.node, item.parentNodeId, item.referenceTypeId,
                              item.typeDefinition, MaxDepth)

\* __UA_Server_addNode_begin
UA_Server_addNode_begin_item(st, item) ==
    LET created == createNodeFromAttributes(item)
    IN IF created.rv # Good THEN [st |-> st, rv |-> created.rv, id |-> NullId]
       ELSE UA_Server_addNode_begin(st, created.node)

-----------------------------------------------------------------------------
(* The services: an array of items in, an array of results out. The results
   array is taken to be allocated, as every other allocation of the module;
   no external namespace is configured. A call that crashes the server ends
   the loop: there is no response. *)

\* the response of a service: the serviceResult and the results array
Response(st, serviceResult, results) ==
    [st |-> st, rv |-> serviceResult, results |-> results]

\* Service_AddNodes_single: result->statusCode and result->addedNodeId
Service_AddNodes_single(st, item) ==
    WithoutCallback(UA_Server_addNode_item(st, item))

RECURSIVE AddNodesLoop(_, _, _, _)
RECURSIVE AddNodesStep(_, _, _, _)
\* the loop of Service_AddNodes over nodesToAdd, from item i on
AddNodesLoop(st, items, i, results) ==
    IF i > Len(items) THEN Response(st, Good, results)
    ELSE AddNodesStep(Service_AddNodes_single(st, items[i]), items, i, results)

\* a loop that is left at the first item that fails
AddNodesStep_StopOnFailure(r, items, i, results) ==
    IF r.rv # Good
    THEN Response(r.st, r.rv, Append(results, [statusCode |-> r.rv, addedNodeId |-> r.id]))
    ELSE AddNodesLoop(r.st, items, i + 1,
                      Append(results, [statusCode |-> r.rv, addedNodeId |-> r.id]))

\* results[i] is filled in and the loop goes on, whatever the status is
AddNodesStep(r, items, i, results) ==
    IF r.rv = Crash THEN Response(r.st, Crash, results)
    ELSE AddNodesLoop(r.st, items, i + 1,
                      Append(results, [statusCode |-> r.rv, addedNodeId |-> r.id]))

\* Service_AddNodes
Service_AddNodes(st, nodesToAdd) ==
    IF Len(nodesToAdd) <= 0 THEN Response(st, BadNothingToDo, <<>>)
    ELSE AddNodesLoop(st, nodesToAdd, 1, <<>>)

RECURSIVE StatusLoop(_, _, _, _, _)
RECURSIVE StatusStep(_, _, _, _, _)
\* one item of referencesToAdd, nodesToDelete or referencesToDelete
StatusSingle(service, st, item) ==
    CASE service = "AddReferences" -> Service_AddReferences_single(st, item, "none")
      [] service = "DeleteNodes" ->
            Service_DeleteNodes_single(st, item.nodeId, item.deleteTargetReferences)
      [] service = "DeleteReferences" -> Service_DeleteReferences_single(st, item)

\* the loops of Service_AddReferences, Service_DeleteNodes and
\* Service_DeleteReferences: results[i] is the status of item i
StatusLoop(service, st, items, i, results) ==
    IF i > Len(items) THEN Response(st, Good, results)
    ELSE StatusStep(service, StatusSingle(service, st, items[i]), items, i, results)

StatusStep(service, r, items, i, results) ==
    IF r.rv = Crash THEN Response(r.st, Crash, results)
    ELSE StatusLoop(service, r.st, items, i + 1, Append(results, r.rv))

\* Service_AddReferences
Service_AddReferences(st, referencesToAdd) ==
    IF Len(referencesToAdd) <= 0 THEN Response(st, BadNothingToDo, <<>>)
    ELSE StatusLoop("AddReferences", st, referencesToAdd, 1, <<>>)

\* Service_DeleteNodes
Service_DeleteNodes(st, nodesToDelete) ==
    IF Len(nodesToDelete) = 0 THEN Response(st, BadNothingToDo, <<>>)
    ELSE StatusLoop("DeleteNodes", st, nodesToDelete, 1, <<>>)

\* Service_DeleteReferences
Service_DeleteReferences(st, referencesToDelete) ==
    IF Len(referencesToDelete) <= 0 THEN Response(st, BadNothingToDo, <<>>)
    ELSE StatusLoop("DeleteReferences", st, referencesToDelete, 1, <<>>)

-----------------------------------------------------------------------------
(* The address space after the server and its application have started *)

BootstrapNodes ==
    << <<REFERENCES, REFERENCETYPE, "References", TRUE>>,
       <<NONHIERARCHICALREFERENCES, REFERENCETYPE, "NonHierarchicalReferences", TRUE>>,
       <<HIERARCHICALREFERENCES, REFERENCETYPE, "HierarchicalReferences", TRUE>>,
       <<HASCHILD, REFERENCETYPE, "HasChild", TRUE>>,
       <<ORGANIZES, REFERENCETYPE, "Organizes", FALSE>>,
       <<HASTYPEDEFINITION, REFERENCETYPE, "HasTypeDefinition", FALSE>>,
       <<AGGREGATES, REFERENCETYPE, "Aggregates", TRUE>>,
       <<HASSUBTYPE, REFERENCETYPE, "HasSubtype", FALSE>>,
       <<HASPROPERTY, REFERENCETYPE, "HasProperty", FALSE>>,
       <<HASCOMPONENT, REFERENCETYPE, "HasComponent", FALSE>>,
       <<BASEDATATYPE, DATATYPE, "BaseDataType", TRUE>>,
       <<INT32, DATATYPE, "Int32", FALSE>>,
       <<STRINGTYPE, DATATYPE, "String", FALSE>>,
       <<ARGUMENT, DATATYPE, "Argument", FALSE>>,
       <<BASEVARIABLETYPE, VARIABLETYPE, "BaseVariableType", TRUE>>,
       <<BASEDATAVARIABLETYPE, VARIABLETYPE, "BaseDataVariableType", FALSE>>,
       <<PROPERTYTYPE, VARIABLETYPE, "PropertyType", FALSE>>,
       <<BASEOBJECTTYPE, OBJECTTYPE, "BaseObjectType", FALSE>>,
       <<FOLDERTYPE, OBJECTTYPE, "FolderType", FALSE>>,
       <<OBJECTSFOLDER, OBJECT, "Objects", FALSE>> >>

\* <<source, reference type, target>>, stored on both ends
BootstrapReferences ==
    << <<REFERENCES, HASSUBTYPE, NONHIERARCHICALREFERENCES>>,
       <<REFERENCES, HASSUBTYPE, HIERARCHICALREFERENCES>>,
       <<HIERARCHICALREFERENCES, HASSUBTYPE, HASCHILD>>,
       <<HIERARCHICALREFERENCES, HASSUBTYPE, ORGANIZES>>,
       <<NONHIERARCHICALREFERENCES, HASSUBTYPE, HASTYPEDEFINITION>>,
       <<HASCHILD, HASSUBTYPE, AGGREGATES>>,
       <<HASCHILD, HASSUBTYPE, HASSUBTYPE>>,
       <<AGGREGATES, HASSUBTYPE, HASPROPERTY>>,
       <<AGGREGATES, HASSUBTYPE, HASCOMPONENT>>,
       <<BASEDATATYPE, HASSUBTYPE, INT32>>,
       <<BASEDATATYPE, HASSUBTYPE, STRINGTYPE>>,
       <<BASEDATATYPE, HASSUBTYPE, ARGUMENT>>,
       <<BASEVARIABLETYPE, HASSUBTYPE, BASEDATAVARIABLETYPE>>,
       <<BASEVARIABLETYPE, HASSUBTYPE, PROPERTYTYPE>>,
       <<BASEOBJECTTYPE, HASSUBTYPE, FOLDERTYPE>>,
       <<OBJECTSFOLDER, HASTYPEDEFINITION, FOLDERTYPE>> >>

RECURSIVE BootstrapRefsOf(_, _)
BootstrapRefsOf(id, k) ==
    IF k > Len(BootstrapReferences) THEN <<>>
    ELSE LET e == BootstrapReferences[k]
         IN (IF e[1] = id THEN <<ReferenceNode(e[2], e[3], FALSE)>> ELSE <<>>)
            \o (IF e[3] = id THEN <<ReferenceNode(e[2], e[1], TRUE)>> ELSE <<>>)
            \o BootstrapRefsOf(id, k + 1)

\* namespace 0 as the server creates it at startup
Namespace0 ==
    LET Desc(id) == CHOOSE k \in 1..Len(BootstrapNodes) : BootstrapNodes[k][1] = id
        ids == {BootstrapNodes[k][1] : k \in 1..Len(BootstrapNodes)}
    IN [id \in ids |->
          LET b == BootstrapNodes[Desc(id)]
          IN [UA_NodeStore_newNode(b[2]) EXCEPT
                !.nodeId = id, !.browseName = b[3], !.isAbstract = b[4],
                !.references = BootstrapRefsOf(id, 1),
                !.dataType = IF b[2] = VARIABLETYPE THEN BASEDATATYPE ELSE NullId,
                !.valueRank = IF b[2] = VARIABLETYPE THEN -2 ELSE 0]]

\* the ids the application's nodes get
NullNs1 == NsBase
TypeT == NsBase + 1
TypeTX == NsBase + 2
TypeU == NsBase + 4
TypeUZ == NsBase + 5
Obj1 == NsBase + 7
Begun == NsBase + 9
Missing == NsBase + 999
\* a variable type the application adds to namespace 0
TypeVT == 900

\* the calls by which the application builds its information model: object
\* type T with lifecycle management and a variable X (value 42) that has a
\* property Y; object type U, a subtype of T, with a member object Z of type
\* T; an instance of T below the Objects folder; an object that has been
\* begun and not finished
ApplicationSetup ==
    LET s0 == [nodes |-> Namespace0, log |-> <<>>]
        s1 == UA_Server_addNode_item(s0,
                 AddNodesItem(OBJECTTYPE, TypeT, "T", BASEOBJECTTYPE, HASSUBTYPE, NullId)).st
        s2 == UA_Server_setObjectTypeNode_lifecycleManagement(s1, TypeT,
                 [constructor |-> TRUE, destructor |-> TRUE]).st
        s3 == UA_Server_addNode_item(s2,
                 VariableItem(VARIABLE_, NullNs1, "X", TypeT, HASCOMPONENT,
                              BASEDATAVARIABLETYPE, INT32, -1, ScalarValue(INT32, 42))).st
        s4 == UA_Server_addNode_item(s3,
                 VariableItem(VARIABLE_, NullNs1, "Y", TypeTX, HASPROPERTY,
                              PROPERTYTYPE, INT32, -1, ScalarValue(INT32, 7))).st
        s5 == UA_Server_addNode_item(s4,
                 AddNodesItem(OBJECTTYPE, NullNs1, "U", TypeT, HASSUBTYPE, NullId)).st
        s6 == UA_Server_addNode_item(s5,
                 AddNodesItem(OBJECT, NullNs1, "Z", TypeU, HASCOMPONENT, TypeT)).st
        s7 == UA_Server_addNode_item(s6,
                 AddNodesItem(OBJECT, NullNs1, "O1", OBJECTSFOLDER, ORGANIZES, TypeT)).st
        s8 == UA_Server_addNode_begin_item(s7,
                 AddNodesItem(OBJECT, NullNs1, "P", NullId, NullId, NullId)).st
        s9 == UA_Server_addNode_item(s8,
                 [VariableItem(VARIABLETYPE, TypeVT, "VT", BASEDATAVARIABLETYPE, HASSUBTYPE,
                               NullId, INT32, 1, NoValue)
                     EXCEPT !.arrayDimensions = <<2>>]).st
    IN s9

-----------------------------------------------------------------------------
(* The public calls *)

NoArgs ==
    [nodeId |-> NullId, nodeClass |-> "", browseName |-> "", parentNodeId |-> NullId,
     referenceTypeId |-> NullId, typeDefinition |-> NullId, targetNodeId |-> NullId,
     isForward |-> FALSE, flag |-> FALSE, fail |-> "none",
     dataSource |-> DataSource(FALSE, Good, NoValue),
     inputArgumentsSize |-> 0, outputArgumentsSize |-> 0, serverIndex |-> 0]

Init ==
    /\ nodes = ApplicationSetup.nodes
    /\ pending = {Begun}
    /\ last = [op |-> "init", args |-> NoArgs, rv |-> Good, id |-> NullId,
               pre |-> nodes, log |-> <<>>, items |-> <<>>, results |-> <<>>]
    /\ nops = 0
    /\ rcu = 0

CanCall == nops < MaxOps /\ last.rv # Crash

\* the effect of a call with result r
Called(op, args, r, id) ==
    /\ nodes' = r.st.nodes
    /\ last' = [op |-> op, args |-> args, rv |-> r.rv, id |-> id,
                pre |-> nodes, log |-> r.st.log, items |-> <<>>, results |-> <<>>]
    /\ nops' = nops + 1

\* the effect of a service call with response r
ServiceCalled(op, items, r) ==
    /\ nodes' = r.st.nodes
    /\ last' = [op |-> op, args |-> NoArgs, rv |-> r.rv, id |-> NullId,
                pre |-> nodes, log |-> r.st.log, items |-> items, results |-> r.results]
    /\ nops' = nops + 1

\* the effect of a call whose result r carries the id of a node
CalledWithId(op, args, r) == Called(op, args, r, r.id)

Server == [nodes |-> nodes, log |-> <<>>]

ParentReferences ==
    {<<NullId, NullId>>, <<OBJECTSFOLDER, ORGANIZES>>, <<OBJECTSFOLDER, HASTYPEDEFINITION>>}

\* the type classes, each with the root of its hierarchy in namespace 0 and
\* with a type node of another class
TypeRoots ==
    << <<OBJECTTYPE, BASEOBJECTTYPE, BASEDATATYPE>>,
       <<VARIABLETYPE, BASEVARIABLETYPE, BASEOBJECTTYPE>>,
       <<DATATYPE, BASEDATATYPE, REFERENCES>>,
       <<REFERENCETYPE, ORGANIZES, BASEVARIABLETYPE>> >>

AddNodeRequests ==
    {AddNodesItem(OBJECT, NullNs1, "O", pr[1], pr[2], t) :
        pr \in ParentReferences, t \in {NullId, TypeT, TypeU, BASEVARIABLETYPE}}
    \cup {VariableItem(VARIABLE_, NullNs1, "X", p, HASCOMPONENT, t, INT32, -1,
                       ScalarValue(INT32, 5)) :
             p \in {Begun, Obj1}, t \in {NullId, BASEVARIABLETYPE}}
    \cup {AddNodesItem(OBJECT, Obj1, "O", NullId, NullId, NullId)}
    \cup {VariableItem(VARIABLE_, NullNs1, "X", Obj1, HASCOMPONENT, t, INT32, -1,
                       ScalarValue(INT32, 5)) : t \in {TypeT, Missing}}
    \cup {VariableItem(VARIABLETYPE, NullNs1, "S", BASEVARIABLETYPE, HASSUBTYPE, NullId,
                       INT32, -1, NoValue)}
    \cup UNION {{AddNodesItem(tr[1], NullNs1, "S", tr[2], HASSUBTYPE, NullId),
                  AddNodesItem(tr[1], NullNs1, "S", tr[2], ORGANIZES, NullId),
                  AddNodesItem(tr[1], NullNs1, "S", tr[3], HASSUBTYPE, NullId)} :
                 tr \in {TypeRoots[k] : k \in DOMAIN TypeRoots}}
    \cup {[VariableItem(VARIABLE_, q[1], "A", Obj1, HASCOMPONENT, TypeVT, q[2], 1, NoValue)
              EXCEPT !.arrayDimensions = q[3]] :
             q \in {<<NullNs1, INT32, <<>> >>, <<NullNs1, INT32, <<2>> >>,
                    <<NullNs1, INT32, <<3>> >>, <<NullNs1, STRINGTYPE, <<2>> >>,
                    <<BASEDATAVARIABLETYPE, STRINGTYPE, <<3>> >>}}

ItemArgs(item) ==
    [NoArgs EXCEPT !.nodeId = item.requestedNewNodeId, !.nodeClass = item.nodeClass,
                   !.browseName = item.browseName, !.parentNodeId = item.parentNodeId,
                   !.referenceTypeId = item.referenceTypeId,
                   !.typeDefinition = item.typeDefinition]

\* UA_Server_addNode through __UA_Server_addNode
AddNode ==
    /\ CanCall
    /\ \E item \in AddNodeRequests :
          CalledWithId("addNode", ItemArgs(item), UA_Server_addNode_item(Server, item))
    /\ UNCHANGED <<pending, rcu>>

BeginRequests ==
    {AddNodesItem(OBJECT, id, "Q", NullId, NullId, NullId) : id \in {NullNs1, 2 * NsBase}}

\* __UA_Server_addNode_begin
AddNodeBegin ==
    /\ CanCall
    /\ \E item \in BeginRequests :
          /\ CalledWithId("addNode_begin", ItemArgs(item),
                          UA_Server_addNode_begin_item(Server, item))
          /\ pending' = IF last'.rv = Good THEN pending \cup {last'.id} ELSE pending
    /\ UNCHANGED rcu

\* __UA_Server_addNode_finish for a node that has been begun
AddNodeFinish ==
    /\ CanCall
    /\ \E id \in pending \cap DOMAIN nodes :
       \E pr \in {<<NullId, NullId>>, <<OBJECTSFOLDER, ORGANIZES>>} :
       \E t \in {NullId, TypeT, TypeU} :
          LET r == UA_Server_addNode_finish(Server, id, nodes[id].nodeClass,
                                            pr[1], pr[2], t, MaxDepth)
          IN /\ Called("addNode_finish",
                       [NoArgs EXCEPT !.nodeId = id, !.nodeClass = nodes[id].nodeClass,
                                      !.parentNodeId = pr[1], !.referenceTypeId = pr[2],
                                      !.typeDefinition = t],
                       r, id)
             /\ pending' = pending \ {id}
    /\ UNCHANGED rcu

AddReferenceRequests ==
    {[s |-> e[1], t |-> e[2], r |-> r, fwd |-> f, fail |-> "none"] :
        e \in {<<Obj1, TypeU>>, <<Obj1, Missing>>, <<Missing, Obj1>>},
        r \in {HASSUBTYPE, HASCOMPONENT}, f \in BOOLEAN}
    \cup {[s |-> Obj1, t |-> TypeU, r |-> HASCOMPONENT, fwd |-> f, fail |-> x] :
             f \in BOOLEAN, x \in {"first", "second"}}
    \cup {[s |-> Obj1, t |-> TypeU, r |-> r, fwd |-> TRUE, fail |-> "none"] :
             r \in {TypeT, Missing}}
    \cup {[s |-> TypeU, t |-> BASEOBJECTTYPE, r |-> HASSUBTYPE, fwd |-> FALSE, fail |-> "none"]}

\* UA_Server_addReference
AddReference ==
    /\ CanCall
    /\ \E q \in AddReferenceRequests :
          LET r == Service_AddReferences_single(Server,
                      AddReferencesItem(q.s, q.r, q.t, q.fwd), q.fail)
          IN Called("addReference",
                    [NoArgs EXCEPT !.nodeId = q.s, !.referenceTypeId = q.r,
                                   !.targetNodeId = q.t, !.isForward = q.fwd,
                                   !.fail = q.fail],
                    r, NullId)
    /\ UNCHANGED pending
    /\ rcu' = CriticalSection(rcu)

\* UA_Server_deleteNode
DeleteNode ==
    /\ CanCall
    /\ \E id \in {Obj1, TypeUZ, Begun, Missing, BASEDATAVARIABLETYPE, PROPERTYTYPE}
                  \cup ({last.id} \ {NullId}) :
       \E deleteReferences \in BOOLEAN :
          LET r == Service_DeleteNodes_single(Server, id, deleteReferences)
          IN Called("deleteNode",
                    [NoArgs EXCEPT !.nodeId = id, !.flag = deleteReferences], r, NullId)
    /\ UNCHANGED pending
    /\ rcu' = CriticalSection(rcu)

\* UA_Server_deleteReference
DeleteReference ==
    /\ CanCall
    /\ \E s \in {Obj1, OBJECTSFOLDER} \cap DOMAIN nodes :
       \E k \in 0..Len(nodes[s].references) :
       \E deleteBidirectional \in BOOLEAN :
          LET q == IF k = 0
                   THEN [t |-> TypeU, r |-> HASCOMPONENT, fwd |-> TRUE]
                   ELSE [t |-> nodes[s].references[k].targetId,
                         r |-> nodes[s].references[k].referenceTypeId,
                         fwd |-> ~nodes[s].references[k].isInverse]
              r == Service_DeleteReferences_single(Server,
                      DeleteReferencesItem(s, q.r, q.t, q.fwd, deleteBidirectional))
          IN Called("deleteReference",
                    [NoArgs EXCEPT !.nodeId = s, !.referenceTypeId = q.r,
                                   !.targetNodeId = q.t, !.isForward = q.fwd,
                                   !.flag = deleteBidirectional],
                    r, NullId)
    /\ UNCHANGED pending
    /\ rcu' = CriticalSection(rcu)

\* UA_Server_setObjectTypeNode_lifecycleManagement
SetLifecycleManagement ==
    /\ CanCall
    /\ \E id \in {TypeU, Obj1} :
          LET r == UA_Server_setObjectTypeNode_lifecycleManagement(Server, id,
                      [constructor |-> TRUE, destructor |-> TRUE])
          IN Called("setLifecycleManagement", [NoArgs EXCEPT !.nodeId = id], r, NullId)
    /\ UNCHANGED pending
    /\ rcu' = CriticalSection(rcu)

\* a node id of namespace 1 that the application has not used
NewObj == NsBase + 50

\* arrays of no item, of an item that fails before one that succeeds, and of
\* two items the second of which depends on the first
NodesToAdd ==
    LET a == AddNodesItem(OBJECT, NewObj, "P", NullId, NullId, NullId)
        b == AddNodesItem(OBJECT, NullNs1, "C", NewObj, ORGANIZES, NullId)
    IN {<<>>, <<a, b>>, <<b, a>>}

ReferencesToAdd ==
    LET a == AddReferencesItem(Obj1, HASCOMPONENT, TypeU, TRUE)
        b == AddReferencesItem(Missing, ORGANIZES, Obj1, TRUE)
    IN {<<>>, <<b, a>>}

NodesToDelete ==
    LET a == [nodeId |-> Obj1, deleteTargetReferences |-> TRUE]
        b == [nodeId |-> Missing, deleteTargetReferences |-> TRUE]
    IN {<<>>, <<b, a>>, <<a, a>>}

ReferencesToDelete ==
    LET a == DeleteReferencesItem(Obj1, HASTYPEDEFINITION, TypeT, TRUE, FALSE)
        b == DeleteReferencesItem(Missing, HASTYPEDEFINITION, TypeT, TRUE, FALSE)
    IN {<<>>, <<b, a>>, <<a, a>>}

\* Service_AddNodes
AddNodes ==
    /\ CanCall
    /\ \E items \in NodesToAdd :
          ServiceCalled("AddNodes", items, Service_AddNodes(Server, items))
    /\ UNCHANGED <<pending, rcu>>

\* Service_AddReferences
AddReferences ==
    /\ CanCall
    /\ \E items \in ReferencesToAdd :
          ServiceCalled("AddReferences", items, Service_AddReferences(Server, items))
    /\ UNCHANGED <<pending, rcu>>

\* Service_DeleteNodes
DeleteNodes ==
    /\ CanCall
    /\ \E items \in NodesToDelete :
          ServiceCalled("DeleteNodes", items, Service_DeleteNodes(Server, items))
    /\ UNCHANGED <<pending, rcu>>

\* Service_DeleteReferences
DeleteReferences ==
    /\ CanCall
    /\ \E items \in ReferencesToDelete :
          ServiceCalled("DeleteReferences", items, Service_DeleteReferences(Server, items))
    /\ UNCHANGED <<pending, rcu>>

\* data sources without read callback, with a read that fails, and with a
\* read that gives a value or none
DataSources ==
    {DataSource(FALSE, Good, NoValue), DataSource(TRUE, BadNotImplemented, NoValue),
     DataSource(TRUE, Good, ScalarValue(INT32, 1)), DataSource(TRUE, Good, NoValue)}

\* UA_Server_addDataSourceVariableNode
AddDataSourceVariableNode ==
    /\ CanCall
    /\ \E q \in {<<d, NullId>> : d \in DataSources}
                 \cup {<<DataSource(TRUE, Good, NoValue), Missing>>} :
          CalledWithId("addDataSourceVariableNode",
              [NoArgs EXCEPT !.nodeId = NullNs1, !.nodeClass = VARIABLE_,
                             !.browseName = "D", !.parentNodeId = Obj1,
                             !.referenceTypeId = HASCOMPONENT, !.typeDefinition = q[2],
                             !.dataSource = q[1]],
              UA_Server_addDataSourceVariableNode(Server, NullNs1, Obj1, HASCOMPONENT, "D",
                  q[2], [dataType |-> INT32, valueRank |-> -1, arrayDimensions |-> <<>>],
                  q[1]))
    /\ UNCHANGED pending
    /\ rcu' = Rcu_addDataSourceVariableNode(rcu, last'.args.dataSource)

\* UA_Server_addMethodNode
AddMethodNode ==
    /\ CanCall
    /\ \E q \in {<<Obj1, 0, 0>>, <<Obj1, 1, 0>>, <<Obj1, 0, 1>>, <<Obj1, 1, 1>>,
                 <<Missing, 1, 1>>} :
          CalledWithId("addMethodNode",
              [NoArgs EXCEPT !.nodeId = NullNs1, !.nodeClass = METHOD,
                             !.browseName = "M", !.parentNodeId = q[1],
                             !.referenceTypeId = HASCOMPONENT,
                             !.inputArgumentsSize = q[2], !.outputArgumentsSize = q[3]],
              UA_Server_addMethodNode(Server, NullNs1, q[1], HASCOMPONENT, "M", q[2], q[3]))
    /\ UNCHANGED pending
    /\ rcu' = Rcu_addMethodNode(rcu, last'.rv, last'.args.inputArgumentsSize,
                                 last'.args.outputArgumentsSize)

Next ==
    \/ AddNode
    \/ AddNodeBegin
    \/ AddNodeFinish
    \/ AddReference
    \/ DeleteNode
    \/ DeleteReference
    \/ SetLifecycleManagement
    \/ AddNodes
    \/ AddReferences
    \/ DeleteNodes
    \/ DeleteReferences
    \/ AddDataSourceVariableNode
    \/ AddMethodNode

Spec == Init /\ [][Next]_vars

-----------------------------------------------------------------------------
(* The reference list of one node under addReference and deleteReference *)

\* edges from O1: a second HasTypeDefinition edge to T, and HasComponent edges
\* to U in both orientations
EdgeRequests ==
    {[r |-> HASTYPEDEFINITION, t |-> TypeT, fwd |-> TRUE],
     [r |-> HASCOMPONENT, t |-> TypeU, fwd |-> TRUE],
     [r |-> HASCOMPONENT, t |-> TypeU, fwd |-> FALSE]}

\* UA_Server_addReference with source O1
AddEdge ==
    /\ nops < MaxEdgeOps
    /\ \E q \in EdgeRequests :
          Called("addReference",
                 [NoArgs EXCEPT !.nodeId = Obj1, !.referenceTypeId = q.r,
                                !.targetNodeId = q.t, !.isForward = q.fwd],
                 Service_AddReferences_single(Server,
                     AddReferencesItem(Obj1, q.r, q.t, q.fwd), "none"),
                 NullId)
    /\ UNCHANGED pending
    /\ rcu' = CriticalSection(rcu)

\* UA_Server_deleteReference with source O1 and deleteBidirectional false:
\* one deleteOneWayReference on O1
DeleteEdge ==
    /\ nops < MaxEdgeOps
    /\ \E q \in EdgeRequests \cup {[r |-> HASPROPERTY, t |-> TypeT, fwd |-> TRUE]} :
          Called("deleteReference",
                 [NoArgs EXCEPT !.nodeId = Obj1, !.referenceTypeId = q.r,
                                !.targetNodeId = q.t, !.isForward = q.fwd],
                 Service_DeleteReferences_single(Server,
                     DeleteReferencesItem(Obj1, q.r, q.t, q.fwd, FALSE)),
                 NullId)
    /\ UNCHANGED pending
    /\ rcu' = CriticalSection(rcu)

NextOneWay == AddEdge \/ DeleteEdge

SpecOneWay == Init /\ [][NextOneWay]_vars

-----------------------------------------------------------------------------
(* The checks of addNode_begin and of the parent reference *)

\* the parents of a request: none, a node that is not stored, an object and
\* an object type
ParentIds == {NullId, Missing, OBJECTSFOLDER, FOLDERTYPE}

\* the reference types of a request: none, a node that is not stored, a node
\* of another class, abstract reference types, and reference types that are
\* not abstract, inside and outside of the hierarchical references
ParentReferenceTypeIds ==
    {NullId, Missing, TypeT, HIERARCHICALREFERENCES, NONHIERARCHICALREFERENCES,
     AGGREGATES, HASTYPEDEFINITION, ORGANIZES, HASCOMPONENT, HASSUBTYPE}

\* the attributes of a request of the class; a variable is a scalar Int32
ItemBelow(class, id, parent, ref) ==
    IF class = VARIABLE_
    THEN VariableItem(class, id, "N", parent, ref, NullId, INT32, -1, ScalarValue(INT32, 1))
    ELSE AddNodesItem(class, id, "N", parent, ref, NullId)

\* UA_Server_addNode through __UA_Server_addNode, for every parent and
\* reference type
AddBelow ==
    /\ nops < MaxAddOps
    /\ \E class \in {OBJECT, VARIABLE_, VIEW, OBJECTTYPE} :
       \E parent \in ParentIds :
       \E ref \in ParentReferenceTypeIds :
          CalledWithId("addNode", ItemArgs(ItemBelow(class, NullNs1, parent, ref)),
                       UA_Server_addNode_item(Server, ItemBelow(class, NullNs1, parent, ref)))
    /\ UNCHANGED <<pending, rcu>>

\* UA_Server_addMethodNode without arguments, for every parent and reference
\* type
AddMethodBelow ==
    /\ nops < MaxAddOps
    /\ \E parent \in ParentIds :
       \E ref \in ParentReferenceTypeIds :
          CalledWithId("addMethodNode",
              [NoArgs EXCEPT !.nodeId = NullNs1, !.nodeClass = METHOD,
                             !.browseName = "M", !.parentNodeId = parent,
                             !.referenceTypeId = ref],
              UA_Server_addMethodNode(Server, NullNs1, parent, ref, "M", 0, 0))
    /\ UNCHANGED pending
    /\ rcu' = Rcu_addMethodNode(rcu, last'.rv, last'.args.inputArgumentsSize,
                                 last'.args.outputArgumentsSize)

\* __UA_Server_addNode_begin for ids that are null, free, taken, and of a
\* namespace the server does not have; the variable holds a String value
\* under the data type Int32
BeginAny ==
    /\ nops < MaxAddOps
    /\ \E class \in {OBJECT, VARIABLE_, VIEW, OBJECTTYPE} :
       \E id \in {NullNs1, NewObj, Obj1, 2 * NsBase, 2 * NsBase + 5} :
          LET item == IF class = VARIABLE_
                      THEN VariableItem(class, id, "B", NullId, NullId, NullId, INT32, -1,
                                        ScalarValue(STRINGTYPE, 1))
                      ELSE AddNodesItem(class, id, "B", NullId, NullId, NullId)
          IN /\ CalledWithId("addNode_begin", ItemArgs(item),
                             UA_Server_addNode_begin_item(Server, item))
             /\ pending' = IF last'.rv = Good THEN pending \cup {last'.id} ELSE pending
    /\ UNCHANGED rcu

\* __UA_Server_addNode_finish for a node that has been begun, for every
\* parent and reference type
FinishBelow ==
    /\ nops < MaxAddOps
    /\ \E id \in pending \cap DOMAIN nodes :
       \E parent \in ParentIds :
       \E ref \in ParentReferenceTypeIds :
          /\ Called("addNode_finish",
                    [NoArgs EXCEPT !.nodeId = id, !.nodeClass = nodes[id].nodeClass,
                                   !.parentNodeId = parent, !.referenceTypeId = ref],
                    UA_Server_addNode_finish(Server, id, nodes[id].nodeClass, parent, ref,
                                             NullId, MaxDepth),
                    id)
          /\ pending' = pending \ {id}
    /\ UNCHANGED rcu

NextAddNode == AddBelow \/ AddMethodBelow \/ BeginAny \/ FinishBelow

SpecAddNode == Init /\ [][NextAddNode]_vars

-----------------------------------------------------------------------------
(* Instantiation of types whose members the application changes *)

\* UA_Server_addNode of a variable X with value 5 below the subtype U, whose
\* supertype T has a variable X as well
AddOverridingMember ==
    /\ nops < MaxInstOps
    /\ LET item == VariableItem(VARIABLE_, NullNs1, "X", TypeU, HASCOMPONENT,
                                BASEDATAVARIABLETYPE, INT32, -1, ScalarValue(INT32, 5))
       IN CalledWithId("addNode", ItemArgs(item), UA_Server_addNode_item(Server, item))
    /\ UNCHANGED <<pending, rcu>>

\* UA_Server_addMethodNode of a method M below an object type
AddTypeMethod ==
    /\ nops < MaxInstOps
    /\ \E parent \in {TypeT, TypeU} :
          CalledWithId("addMethodNode",
              [NoArgs EXCEPT !.nodeId = NullNs1, !.nodeClass = METHOD,
                             !.browseName = "M", !.parentNodeId = parent,
                             !.referenceTypeId = HASCOMPONENT],
              UA_Server_addMethodNode(Server, NullNs1, parent, HASCOMPONENT, "M", 0, 0))
    /\ UNCHANGED pending
    /\ rcu' = Rcu_addMethodNode(rcu, last'.rv, last'.args.inputArgumentsSize,
                                 last'.args.outputArgumentsSize)

\* UA_Server_addReference that makes the object O1 a member of U by the
\* abstract reference type Aggregates
AddAbstractMember ==
    /\ nops < MaxInstOps
    /\ Called("addReference",
              [NoArgs EXCEPT !.nodeId = TypeU, !.referenceTypeId = AGGREGATES,
                             !.targetNodeId = Obj1, !.isForward = TRUE],
              Service_AddReferences_single(Server,
                  AddReferencesItem(TypeU, AGGREGATES, Obj1, TRUE), "none"),
              NullId)
    /\ UNCHANGED pending
    /\ rcu' = CriticalSection(rcu)

\* UA_Server_deleteNode of the data type of the variable X of T
DeleteDataType ==
    /\ nops < MaxInstOps
    /\ \E deleteReferences \in BOOLEAN :
          Called("deleteNode", [NoArgs EXCEPT !.nodeId = INT32, !.flag = deleteReferences],
                 Service_DeleteNodes_single(Server, INT32, deleteReferences), NullId)
    /\ UNCHANGED pending
    /\ rcu' = CriticalSection(rcu)

\* UA_Server_addNode of an object of type T or U below the Objects folder
Instantiate ==
    /\ nops < MaxInstOps
    /\ \E t \in {TypeT, TypeU} :
          CalledWithId("addNode",
              ItemArgs(AddNodesItem(OBJECT, NullNs1, "I", OBJECTSFOLDER, ORGANIZES, t)),
              UA_Server_addNode_item(Server,
                  AddNodesItem(OBJECT, NullNs1, "I", OBJECTSFOLDER, ORGANIZES, t)))
    /\ UNCHANGED <<pending, rcu>>

NextInstantiate ==
    \/ AddOverridingMember
    \/ AddTypeMethod
    \/ AddAbstractMember
    \/ DeleteDataType
    \/ Instantiate

SpecInstantiate == Init /\ [][NextInstantiate]_vars

-----------------------------------------------------------------------------
(* The data type of variables and variable types *)

\* the effect of __UA_Server_addNode with result r; the item is kept with
\* its attributes
CalledWithItem(item, r) ==
    /\ nodes' = r.st.nodes
    /\ last' = [op |-> "addNode", args |-> ItemArgs(item), rv |-> r.rv, id |-> r.id,
                pre |-> nodes, log |-> r.st.log, items |-> <<item>>, results |-> <<>>]
    /\ nops' = nops + 1

\* the data types of a request: none, the root, two builtin types and a node
\* that is not stored
RequestedDataTypes == {NullId, BASEDATATYPE, INT32, STRINGTYPE, Missing}

\* the type parents of a request: the abstract root of the variable types,
\* BaseDataVariableType (BaseDataType, any value rank) and VT (Int32, arrays
\* of two elements)
TypeParents == {BASEVARIABLETYPE, BASEDATAVARIABLETYPE, TypeVT}

\* a Variable below O1 with the type definition t, or a VariableType that is
\* a subtype of t, with the value rank and the array dimensions that t asks for
TypedItem(class, t, dataType) ==
    [VariableItem(class, NullNs1, "V",
                  IF class = VARIABLE_ THEN Obj1 ELSE t,
                  IF class = VARIABLE_ THEN HASCOMPONENT ELSE HASSUBTYPE,
                  IF class = VARIABLE_ THEN t ELSE NullId,
                  dataType, IF t = TypeVT THEN 1 ELSE -1, NoValue)
        EXCEPT !.arrayDimensions = IF t = TypeVT THEN <<2>> ELSE <<>>]

\* UA_Server_addNode of a Variable or a VariableType
AddTyped ==
    /\ nops < MaxTypeOps
    /\ \E class \in {VARIABLE_, VARIABLETYPE} :
       \E t \in TypeParents :
       \E dataType \in RequestedDataTypes :
          CalledWithItem(TypedItem(class, t, dataType),
                         UA_Server_addNode_item(Server, TypedItem(class, t, dataType)))
    /\ UNCHANGED <<pending, rcu>>

\* UA_Server_addReference that makes a data type the subtype of another one
AddDataSubtype ==
    /\ nops < MaxTypeOps
    /\ \E q \in {<<INT32, STRINGTYPE>>, <<STRINGTYPE, ARGUMENT>>} :
          Called("addReference",
                 [NoArgs EXCEPT !.nodeId = q[1], !.referenceTypeId = HASSUBTYPE,
                                !.targetNodeId = q[2], !.isForward = TRUE],
                 Service_AddReferences_single(Server,
                     AddReferencesItem(q[1], HASSUBTYPE, q[2], TRUE), "none"),
                 NullId)
    /\ UNCHANGED pending
    /\ rcu' = CriticalSection(rcu)

NextTypeCheck == AddTyped \/ AddDataSubtype

SpecTypeCheck == Init /\ [][NextTypeCheck]_vars

-----------------------------------------------------------------------------
(* Successful additions to an address space without instances *)

\* the calls by which an application adds an object type T with a variable X
\* to namespace 0 as the server creates it: no type has been instantiated
TypesSetup ==
    LET s0 == [nodes |-> Namespace0, log |-> <<>>]
        s1 == UA_Server_addNode_item(s0,
                 AddNodesItem(OBJECTTYPE, TypeT, "T", BASEOBJECTTYPE, HASSUBTYPE, NullId)).st
        s2 == UA_Server_addNode_item(s1,
                 VariableItem(VARIABLE_, NullNs1, "X", TypeT, HASCOMPONENT,
                              BASEDATAVARIABLETYPE, INT32, -1, ScalarValue(INT32, 42))).st
    IN s2

InitTypes ==
    /\ nodes = TypesSetup.nodes
    /\ pending = {}
    /\ last = [op |-> "init", args |-> NoArgs, rv |-> Good, id |-> NullId,
               pre |-> nodes, log |-> <<>>, items |-> <<>>, results |-> <<>>]
    /\ nops = 0
    /\ rcu = 0

\* UA_Server_addNode of an object below the Objects folder that succeeds
AddInstance ==
    /\ nops < MaxGoodOps
    /\ \E t \in {NullId, FOLDERTYPE, TypeT} :
          LET item == AddNodesItem(OBJECT, NullNs1, "I", OBJECTSFOLDER, ORGANIZES, t)
              r == UA_Server_addNode_item(Server, item)
          IN r.rv = Good /\ CalledWithId("addNode", ItemArgs(item), r)
    /\ UNCHANGED <<pending, rcu>>

\* UA_Server_addNode of a variable below the type T or below the Objects
\* folder that succeeds
AddVariable ==
    /\ nops < MaxGoodOps
    /\ \E parent \in {TypeT, OBJECTSFOLDER} :
       \E name \in {"V", "W"} :
          LET item == VariableItem(VARIABLE_, NullNs1, name, parent, HASCOMPONENT,
                                   NullId, INT32, -1, ScalarValue(INT32, 1))
              r == UA_Server_addNode_item(Server, item)
          IN r.rv = Good /\ CalledWithId("addNode", ItemArgs(item), r)
    /\ UNCHANGED <<pending, rcu>>

\* UA_Server_addReference between stored nodes that succeeds
AddGoodReference ==
    /\ nops < MaxGoodOps
    /\ \E q \in {<<OBJECTSFOLDER, ORGANIZES, TypeTX>>, <<OBJECTSFOLDER, HASCOMPONENT, TypeT>>} :
       \E isForward \in BOOLEAN :
          LET r == Service_AddReferences_single(Server,
                      AddReferencesItem(q[1], q[2], q[3], isForward), "none")
          IN /\ r.rv = Good
             /\ Called("addReference",
                       [NoArgs EXCEPT !.nodeId = q[1], !.referenceTypeId = q[2],
                                      !.targetNodeId = q[3], !.isForward = isForward],
                       r, NullId)
    /\ UNCHANGED pending
    /\ rcu' = CriticalSection(rcu)

NextGood == AddInstance \/ AddVariable \/ AddGoodReference

SpecGood == InitTypes /\ [][NextGood]_vars

-----------------------------------------------------------------------------
(* Types that have members of their own type *)

\* __UA_Server_addNode with the nesting depth d at its disposal
UA_Server_addNode_nested(st, item, d) ==
    LET created == createNodeFromAttributes(item)
    IN IF created.rv # Good THEN [st |-> st, rv |-> created.rv, id |-> NullId]
       ELSE UA_Server_addNode(st, created.node, item.parentNodeId, item.referenceTypeId,
                              item.typeDefinition, d)

\* UA_Server_addNode of a member object Q of an object type, with an object
\* type as type definition: T gets a member of type T or of its subtype U
AddTypedMember ==
    /\ nops < MaxRecOps /\ last.rv # Crash
    /\ \E parent \in {TypeT, TypeU} :
       \E t \in {TypeT, TypeU, FOLDERTYPE} :
          LET item == AddNodesItem(OBJECT, NullNs1, "Q", parent, HASCOMPONENT, t)
          IN CalledWithId("addNode", ItemArgs(item), UA_Server_addNode_nested(Server, item, MaxNesting))
    /\ UNCHANGED <<pending, rcu>>

\* UA_Server_addReference that closes a cycle of aggregated children: the
\* property Y of the variable X of T gets X as component, the member Z of U
\* gets the instance O1 as component and O1 gets Z
AddMemberCycle ==
    /\ nops < MaxRecOps /\ last.rv # Crash
    /\ \E q \in {<<TypeTX + 1, TypeTX>>, <<TypeUZ, Obj1>>, <<Obj1, TypeUZ>>} :
          Called("addReference",
                 [NoArgs EXCEPT !.nodeId = q[1], !.referenceTypeId = HASCOMPONENT,
                                !.targetNodeId = q[2], !.isForward = TRUE],
                 Service_AddReferences_single(Server,
                     AddReferencesItem(q[1], HASCOMPONENT, q[2], TRUE), "none"),
                 NullId)
    /\ UNCHANGED pending
    /\ rcu' = CriticalSection(rcu)

\* UA_Server_addNode of an object of type T or U below the Objects folder
InstantiateType ==
    /\ nops < MaxRecOps /\ last.rv # Crash
    /\ \E t \in {TypeT, TypeU} :
          LET item == AddNodesItem(OBJECT, NullNs1, "I", OBJECTSFOLDER, ORGANIZES, t)
          IN CalledWithId("addNode", ItemArgs(item), UA_Server_addNode_nested(Server, item, MaxNesting))
    /\ UNCHANGED <<pending, rcu>>

NextRecursive == AddTypedMember \/ AddMemberCycle \/ InstantiateType

SpecRecursive == Init /\ [][NextRecursive]_vars

-----------------------------------------------------------------------------
(* Properties of the reference services *)

Refs(ns, u) == ns[u].references

\* the number of edges (r, t, isInverse) in the list of node u
CountEdges(ns, u, r, t, inv) ==
    IF u \notin DOMAIN ns THEN 0
    ELSE Cardinality({k \in 1..Len(Refs(ns, u)) : Refs(ns, u)[k] = ReferenceNode(r, t, inv)})

\* node u holds an edge whose target is t
HoldsEdgeTo(ns, u, t) == \E k \in 1..Len(Refs(ns, u)) : Refs(ns, u)[k].targetId = t

\* every edge of every node has its matching edge on the target node
Symmetric(ns) ==
    \A u \in DOMAIN ns : \A k \in 1..Len(Refs(ns, u)) :
       LET e == Refs(ns, u)[k]
       IN CountEdges(ns, e.targetId, e.referenceTypeId, u, ~e.isInverse) > 0

\* C1: in every reachable state every edge (u, r, v, forward) stored on a
\* node u has a matching edge (v, r, u, !forward) stored on node v
C1_BidirectionalSymmetry == Symmetric(nodes)

\* the second, target-side insertion of the last addReference has failed
SecondInsertionFailed ==
    /\ last.op = "addReference"
    /\ last.args.nodeId \in DOMAIN last.pre
    /\ last.args.fail # "first"
    /\ last.args.fail = "second" \/ last.args.targetNodeId \notin DOMAIN last.pre

\* C2: when addReference fails while inserting the target-side edge (the
\* target is missing or the insertion runs out of memory) it returns the
\* status of that insertion and the source node's reference list is the one
\* before the call
C2_AddReferenceRollback ==
    SecondInsertionFailed =>
       /\ last.rv = IF last.args.targetNodeId \notin DOMAIN last.pre
                    THEN BadNodeIdUnknown ELSE BadOutOfMemory
       /\ Refs(nodes, last.args.nodeId) = Refs(last.pre, last.args.nodeId)

\* an insertion on an existing target has been made to fail, on a source
\* that holds other edges
C2_Witness ==
    /\ SecondInsertionFailed
    /\ last.args.fail = "second"
    /\ last.rv = BadOutOfMemory
    /\ Len(Refs(last.pre, last.args.nodeId)) > 1

\* C3: after deleteNode(n, deleteReferences=true) returns Good, no remaining
\* node that held an edge targeting n before still holds an edge to n
C3_DeleteNodeSymmetry ==
    (last.op = "deleteNode" /\ last.args.flag /\ last.rv = Good) =>
       \A u \in DOMAIN nodes \cap DOMAIN last.pre :
          HoldsEdgeTo(last.pre, u, last.args.nodeId) => ~HoldsEdgeTo(nodes, u, last.args.nodeId)

\* C4: for a pair of matching edges on source and target,
\* deleteReference(s, r, isForward, t, deleteBidirectional=true) removes the
\* edge from s and the matching edge from t and returns Good
C4_DeleteReferenceBidirectional ==
    LET s == last.args.nodeId
        t == last.args.targetNodeId
        r == last.args.referenceTypeId
        inv == ~last.args.isForward
    IN (/\ last.op = "deleteReference"
        /\ last.args.flag
        /\ CountEdges(last.pre, s, r, t, inv) > 0
        /\ CountEdges(last.pre, t, r, s, ~inv) > 0)
       => /\ last.rv = Good
          /\ CountEdges(nodes, s, r, t, inv) = CountEdges(last.pre, s, r, t, inv) - 1
          /\ CountEdges(nodes, t, r, s, ~inv) = CountEdges(last.pre, t, r, s, ~inv) - 1

-----------------------------------------------------------------------------
(* Properties of addNode, deleteNode and the instantiation *)

Store(ns) == [nodes |-> ns, log |-> <<>>]

\* the aggregated Object, Variable and Method children of u, in list order
AggregatedChildren(ns, u) ==
    Service_Browse_single(Store(ns), u, AGGREGATES, TRUE, FALSE,
                          {OBJECT, VARIABLE_, METHOD}).references

ChildrenNamed(ns, u, name) ==
    {AggregatedChildren(ns, u)[k].nodeId :
        k \in {j \in 1..Len(AggregatedChildren(ns, u)) :
                 AggregatedChildren(ns, u)[j].browseName = name}}

CountEvents(log, ev) == Cardinality({k \in 1..Len(log) : log[k] = ev})

\* the type definition UA_Server_addNode_finish works with
EffectiveType(args) ==
    IF args.typeDefinition # NullId THEN args.typeDefinition
    ELSE IF args.nodeClass = VARIABLE_ THEN BASEDATAVARIABLETYPE
    ELSE IF args.nodeClass = OBJECT THEN BASEOBJECTTYPE
    ELSE NullId

\* C5: addNode that succeeds with id, followed by deleteNode(id, true),
\* yields the store before the addNode: the same nodes with the same
\* reference lists
C5_AddDeleteRoundTrip ==
    [][(/\ last.op = "addNode" /\ last.rv = Good
        /\ last'.op = "deleteNode" /\ last'.args.nodeId = last.id /\ last'.args.flag)
       => nodes' = last.pre]_vars

\* the last addNode has inserted its node and has failed afterwards
FailedInFinish ==
    /\ last.op = "addNode"
    /\ last.rv \notin {Good, Crash}
    /\ last.log # <<>>
    /\ last.log[1][1] = "insert"

\* C6: when addNode returns a non-good status because of a failure in
\* finish, the node that begin has inserted is not in the store any more
C6_FailedAddNodeRemovesNode ==
    FailedInFinish => last.log[1][2] \notin DOMAIN nodes

\* an addNode whose instantiation has failed
C6_Witness ==
    /\ FailedInFinish
    /\ last.rv = BadTypeDefinitionInvalid
    /\ last.log[1][2] \notin DOMAIN last.pre

\* C7: if the object type has an aggregated Variable child named X with value
\* v, a successful addNode(class=Object, typeDef=T) yields an object with a
\* forward HasTypeDefinition edge to T and exactly one aggregated child named
\* X, which is a new node, not T's X, with an id in the namespace of the new
\* object and value v
C7_InstantiationCopiesMembers ==
    LET t == last.args.typeDefinition
    IN (/\ last.op = "addNode" /\ last.rv = Good
        /\ last.args.nodeClass = OBJECT
        /\ t \in DOMAIN last.pre)
       => \A k \in 1..Len(AggregatedChildren(last.pre, t)) :
            LET rd == AggregatedChildren(last.pre, t)[k]
                cs == ChildrenNamed(nodes, last.id, rd.browseName)
            IN rd.nodeClass = VARIABLE_ =>
                 /\ CountEdges(nodes, last.id, HASTYPEDEFINITION, t, FALSE) > 0
                 /\ Cardinality(cs) = 1
                 /\ \A c \in cs :
                       /\ c \notin DOMAIN last.pre
                       /\ c # rd.nodeId
                       /\ NsOf(c) = NsOf(last.id)
                       /\ nodes[c].nodeClass = VARIABLE_
                       /\ nodes[c].value = last.pre[rd.nodeId].value

\* an object of type T has been added and has a new child X with value 42
C7_Witness ==
    /\ last.op = "addNode" /\ last.rv = Good
    /\ last.args.typeDefinition = TypeT
    /\ \E c \in ChildrenNamed(nodes, last.id, "X") :
          c \notin DOMAIN last.pre /\ nodes[c].value = ScalarValue(INT32, 42)

\* the node without its reference list
Attributes(n) == [n EXCEPT !.references = <<>>]

RECURSIVE Covered(_, _, _, _, _)
\* every aggregated child of src (before the call) has a child of the same
\* browse name under dst (after the call), and so on below them
Covered(before, after, src, dst, fuel) ==
    \/ fuel = 0
    \/ \A k \in 1..Len(AggregatedChildren(before, src)) :
          LET rd == AggregatedChildren(before, src)[k]
              Same(x) == x.browseName = rd.browseName
              under == SelectSeq(AggregatedChildren(after, dst), Same)
          IN /\ under # <<>>
             /\ rd.nodeClass \in {VARIABLE_, OBJECT}
                   => Covered(before, after, rd.nodeId, under[1].nodeId, fuel - 1)

\* the types whose members the last addNode_finish has instantiated
InstantiatedTypes ==
    LET h == getTypeHierarchy(Store(last.pre), EffectiveType(last.args))
    IN {h[k] : k \in 1..Len(h)}

\* C8: when the target already has an aggregated child named X and a type
\* with an aggregated child X is instantiated onto it, the existing child
\* keeps its id, attributes and value, no second child named X is created,
\* and the aggregated descendants of the type's X that are missing under the
\* existing X are added under it
C8_MergeWithExisting ==
    (/\ last.op = "addNode_finish" /\ last.rv = Good
     /\ last.args.nodeClass = OBJECT
     /\ EffectiveType(last.args) \in DOMAIN last.pre)
    => \A t \in InstantiatedTypes :
       \A k \in 1..Len(AggregatedChildren(last.pre, t)) :
          LET rd == AggregatedChildren(last.pre, t)[k]
              Same(x) == x.browseName = rd.browseName
              existing == SelectSeq(AggregatedChildren(last.pre, last.id), Same)
          IN existing # <<>> =>
               /\ ChildrenNamed(nodes, last.id, rd.browseName)
                     = ChildrenNamed(last.pre, last.id, rd.browseName)
               /\ \A j \in 1..Len(existing) :
                     /\ existing[j].nodeId \in DOMAIN nodes
                     /\ Attributes(nodes[existing[j].nodeId])
                           = Attributes(last.pre[existing[j].nodeId])
               /\ rd.nodeClass \in {VARIABLE_, OBJECT}
                     => Covered(last.pre, nodes, rd.nodeId, existing[1].nodeId, MaxDepth)

\* T has been instantiated onto a begun object that had a child X without a
\* child Y; the child X is still there and has got a Y
C8_Witness ==
    /\ last.op = "addNode_finish" /\ last.rv = Good
    /\ last.args.typeDefinition = TypeT
    /\ \E x \in ChildrenNamed(last.pre, last.id, "X") :
          /\ ChildrenNamed(last.pre, x, "Y") = {}
          /\ ChildrenNamed(nodes, x, "Y") # {}
          /\ ChildrenNamed(nodes, x, "Y") \cap DOMAIN last.pre = {}

\* C9: for every Object node a successful addNode has created, the children
\* cloned from type members included, whose object type has a constructor,
\* the constructor is invoked exactly once for the node's id and its result
\* is the node's instanceHandle
C9_ConstructorOncePerObject ==
    (last.op = "addNode" /\ last.rv = Good) =>
       \A n \in DOMAIN nodes \ DOMAIN last.pre :
          LET t == getNodeType(Store(nodes), nodes[n])
          IN (/\ nodes[n].nodeClass = OBJECT
              /\ t # NullId
              /\ nodes[t].nodeClass = OBJECTTYPE
              /\ nodes[t].constructor)
             => /\ CountEvents(last.log, <<"constructor", t, n>>) = 1
                /\ nodes[n].instanceHandle = ConstructorHandle(t, n)

\* C10: when deleteNode deletes an Object, the destructor of every object
\* type reached from the object over inverse hasSubtype edges is invoked
\* exactly once, with the object's id and instanceHandle, before the node is
\* removed
C10_DestructorCoverage ==
    LET n == last.args.nodeId
    IN (/\ last.op = "deleteNode" /\ last.rv = Good
        /\ last.pre[n].nodeClass = OBJECT)
       => \A t \in InverseClosure(Store(last.pre), {n}, {}, HASSUBTYPE) \ {n} :
            (/\ t \in DOMAIN last.pre
             /\ last.pre[t].nodeClass = OBJECTTYPE
             /\ last.pre[t].destructor)
            => LET ev == <<"destructor", t, n, last.pre[n].instanceHandle>>
               IN /\ CountEvents(last.log, ev) = 1
                  /\ \A i, j \in 1..Len(last.log) :
                        (last.log[i] = ev /\ last.log[j] = <<"remove", n>>) => i < j

-----------------------------------------------------------------------------
(* Properties of variable typing and of the parent rules *)

\* the array dimensions agree wherever both sides specify one, 0 on the side
\* of the type is unconstrained
ArrayDimensionsAgree(dims, vtDims) ==
    \A k \in DOMAIN dims \cap DOMAIN vtDims : vtDims[k] = 0 \/ vtDims[k] = dims[k]

\* variable v is typed by variable type t
TypedBy(ns, v, t) ==
    /\ t \in DOMAIN ns
    /\ isNodeInTree(Store(ns), ns[v].dataType, ns[t].dataType, HASSUBTYPE)
    /\ ArrayDimensionsAgree(ns[v].arrayDimensions, ns[t].arrayDimensions)

\* a successful addNode of a Variable
AddedVariable ==
    /\ last.op = "addNode" /\ last.rv = Good
    /\ last.args.nodeClass = VARIABLE_

\* C11 as stated: after every successful addNode of a Variable with variable
\* type vt the stored node's dataType is vt.dataType or a hasSubtype
\* descendant of it and its arrayDimensions are compatible with those of vt
C11_VariableTyping ==
    AddedVariable => TypedBy(nodes, last.id, EffectiveType(last.args))

\* C11 amended: the same for every Variable whose node id is not the id of
\* BaseDataVariableType, for which typeCheckVariableNode omits the checks
C11_VariableTypingChecked ==
    (AddedVariable /\ last.id # BASEDATAVARIABLETYPE)
        => TypedBy(nodes, last.id, EffectiveType(last.args))

\* a Variable of the constrained variable type has been added with array
\* dimensions of its own
C11_Witness ==
    /\ AddedVariable /\ last.id # BASEDATAVARIABLETYPE
    /\ last.args.typeDefinition = TypeVT
    /\ nodes[last.id].arrayDimensions = <<2>>
    /\ nodes[last.id].dataType = INT32

\* C12: in every state the public calls reach, the referenceTypeId of every
\* edge stored on every node resolves to an existing node of class
\* ReferenceType
C12_TypedEdges ==
    \A u \in DOMAIN nodes : \A k \in 1..Len(nodes[u].references) :
        /\ nodes[u].references[k].referenceTypeId \in DOMAIN nodes
        /\ nodes[nodes[u].references[k].referenceTypeId].nodeClass = REFERENCETYPE

\* the inverse hasSubtype edges in the list of node u
InboundSubtypeEdges(ns, u) ==
    {k \in 1..Len(ns[u].references) :
        ns[u].references[k].isInverse /\ ns[u].references[k].referenceTypeId = HASSUBTYPE}

\* u has exactly one inbound hasSubtype edge and the node at its other end is
\* stored and has the class of u
OneSupertypeOfSameClass(ns, u) ==
    /\ Cardinality(InboundSubtypeEdges(ns, u)) = 1
    /\ \A k \in InboundSubtypeEdges(ns, u) :
          /\ ns[u].references[k].targetId \in DOMAIN ns
          /\ ns[ns[u].references[k].targetId].nodeClass = ns[u].nodeClass

AddedTypeNode ==
    /\ last.op = "addNode" /\ last.rv = Good
    /\ last.args.nodeClass \in TypeClasses

OrphanObjectRequest ==
    /\ last.op = "addNode"
    /\ last.args.nodeClass = OBJECT
    /\ last.args.parentNodeId = NullId /\ last.args.referenceTypeId = NullId
    /\ last.args.typeDefinition = NullId
    /\ NsOf(last.args.nodeId) < NamespacesSize
    /\ NumOf(last.args.nodeId) = 0 \/ last.args.nodeId \notin DOMAIN last.pre

\* C14: the orphan object is added: the call returns Good, the node is in the
\* store, it has a forward HasTypeDefinition edge to BaseObjectType and no
\* edge to a parent
C14_OrphanObject ==
    OrphanObjectRequest =>
        /\ last.rv = Good
        /\ last.id \in DOMAIN nodes /\ last.id \notin DOMAIN last.pre
        /\ nodes[last.id].nodeClass = OBJECT
        /\ CountEdges(nodes, last.id, HASTYPEDEFINITION, BASEOBJECTTYPE, FALSE) = 1
        /\ \A k \in 1..Len(nodes[last.id].references) :
              ~nodes[last.id].references[k].isInverse

\* an orphan object has been added under a fresh id
C14_Witness ==
    /\ OrphanObjectRequest
    /\ NumOf(last.args.nodeId) = 0
    /\ last.id \in DOMAIN nodes

\* addNode of a new node of a type class with a free id, an existing parent
\* and an existing reference type that is not abstract
TypeNodeRequest ==
    /\ last.op = "addNode"
    /\ last.args.nodeClass \in TypeClasses
    /\ NsOf(last.args.nodeId) < NamespacesSize
    /\ NumOf(last.args.nodeId) = 0 \/ last.args.nodeId \notin DOMAIN last.pre
    /\ last.args.parentNodeId \in DOMAIN last.pre
    /\ last.args.referenceTypeId \in DOMAIN last.pre
    /\ last.pre[last.args.referenceTypeId].nodeClass = REFERENCETYPE
    /\ ~last.pre[last.args.referenceTypeId].isAbstract

\* the node that begin has inserted is not in the store
NewNodeRemoved ==
    /\ last.log # <<>> /\ last.log[1][1] = "insert"
    /\ last.log[1][2] \notin DOMAIN nodes
    /\ DOMAIN nodes = DOMAIN last.pre

\* C15: for such a request addNode returns BadReferenceNotAllowed when the
\* reference type is not hasSubtype and BadParentNodeIdInvalid when it is
\* hasSubtype and the class of the parent differs from the class of the new
\* node; in both cases the new node is not in the store afterwards
C15_TypeNodeParentErrors ==
    TypeNodeRequest =>
        /\ last.args.referenceTypeId # HASSUBTYPE
              => (last.rv = BadReferenceNotAllowed /\ NewNodeRemoved)
        /\ (/\ last.args.referenceTypeId = HASSUBTYPE
            /\ last.pre[last.args.parentNodeId].nodeClass # last.args.nodeClass)
              => (last.rv = BadParentNodeIdInvalid /\ NewNodeRemoved)

\* an ObjectType has been asked for below BaseObjectType with Organizes
C15_Witness ==
    /\ TypeNodeRequest
    /\ last.args.nodeClass = OBJECTTYPE
    /\ last.args.parentNodeId = BASEOBJECTTYPE
    /\ last.args.referenceTypeId = ORGANIZES
    /\ last.rv = BadReferenceNotAllowed

\* addNode of a new Variable with a free id whose parent and reference type
\* pass the check of the parent reference
VariableRequest ==
    /\ last.op = "addNode"
    /\ last.args.nodeClass = VARIABLE_
    /\ NsOf(last.args.nodeId) < NamespacesSize
    /\ NumOf(last.args.nodeId) = 0 \/ last.args.nodeId \notin DOMAIN last.pre
    /\ last.args.parentNodeId \in DOMAIN last.pre
    /\ last.args.referenceTypeId \in DOMAIN last.pre
    /\ last.pre[last.args.referenceTypeId].nodeClass = REFERENCETYPE
    /\ ~last.pre[last.args.referenceTypeId].isAbstract
    /\ isNodeInTree(Store(last.pre), last.args.referenceTypeId,
                    HIERARCHICALREFERENCES, HASSUBTYPE)

\* the type definition resolves to no node, to a node that is not a
\* VariableType or to an abstract VariableType
UnusableVariableType(ns, t) ==
    \/ t \notin DOMAIN ns
    \/ ns[t].nodeClass # VARIABLETYPE
    \/ ns[t].isAbstract

\* addNode of a new VariableType below an abstract VariableType
SubtypeOfAbstractRequest ==
    /\ TypeNodeRequest
    /\ last.args.nodeClass = VARIABLETYPE
    /\ last.args.referenceTypeId = HASSUBTYPE
    /\ last.pre[last.args.parentNodeId].nodeClass = VARIABLETYPE
    /\ last.pre[last.args.parentNodeId].isAbstract

\* C16: addNode of a Variable whose type definition is unusable returns
\* BadTypeDefinitionInvalid and leaves no new node in the store; a
\* VariableType below an abstract VariableType is not rejected with that status
C16_AbstractVariableType ==
    /\ (VariableRequest /\ UnusableVariableType(last.pre, EffectiveType(last.args)))
          => (last.rv = BadTypeDefinitionInvalid /\ NewNodeRemoved)
    /\ SubtypeOfAbstractRequest => last.rv # BadTypeDefinitionInvalid

\* a VariableType has been added below the abstract BaseVariableType
C16_Witness ==
    /\ SubtypeOfAbstractRequest
    /\ last.rv = Good
    /\ nodes[last.id].nodeClass = VARIABLETYPE

-----------------------------------------------------------------------------
(* Properties of the node identifiers and of the services *)

\* a call that inserts a new node under the requested id
InsertingCall ==
    /\ last.op \in {"addNode", "addNode_begin"}
    /\ NsOf(last.args.nodeId) < NamespacesSize

\* C17: node identifiers stay unique. A requested id that is occupied makes
\* the call fail with BadNodeIdExists and leaves every node and every edge
\* list as it was; a null requested id stores the node under a fresh numeric
\* id of the requested namespace that no node had before; every node the call
\* inserts gets an id that was free
C17_UniqueNodeIds ==
    /\ (InsertingCall /\ last.args.nodeId \in DOMAIN last.pre)
          => (last.rv = BadNodeIdExists /\ nodes = last.pre)
    /\ (InsertingCall /\ NumOf(last.args.nodeId) = 0 /\ last.rv = Good)
          => /\ last.id \in DOMAIN nodes /\ last.id \notin DOMAIN last.pre
             /\ NsOf(last.id) = NsOf(last.args.nodeId) /\ NumOf(last.id) # 0
             /\ nodes[last.id].nodeId = last.id
    /\ \A i \in 1..Len(last.log) :
          last.log[i][1] = "insert" => last.log[i][2] \notin DOMAIN last.pre

\* addNode has been called with the id of a stored node
C17_Witness ==
    /\ InsertingCall
    /\ last.args.nodeId = Obj1 /\ Obj1 \in DOMAIN last.pre
    /\ last.rv = BadNodeIdExists

Services == {"AddNodes", "AddReferences", "DeleteNodes", "DeleteReferences"}

\* one item applied on its own, by the call the service makes for it
ItemOutcome(service, st, item) ==
    IF service = "AddNodes" THEN Service_AddNodes_single(st, item)
    ELSE StatusSingle(service, st, item)

\* the result the response holds for an outcome
ItemResult(service, r) ==
    IF service = "AddNodes" THEN [statusCode |-> r.rv, addedNodeId |-> r.id] ELSE r.rv

RECURSIVE StoreAfter(_, _, _, _)
\* the store that the first k items leave, applied one after the other
StoreAfter(service, ns, items, k) ==
    IF k = 0 THEN ns
    ELSE ItemOutcome(service, Store(StoreAfter(service, ns, items, k - 1)), items[k]).st.nodes

\* C18: a service given no item sets the service result to BadNothingToDo
\* and changes nothing in the store; given n > 0 items it returns n results,
\* result i is the result of item i applied to the store that the items
\* before it have left, whether they failed or not, and the store afterwards
\* is the one the last item leaves
C18_ServiceArrays ==
    last.op \in Services =>
        /\ last.items = <<>> =>
              (last.rv = BadNothingToDo /\ last.results = <<>> /\ nodes = last.pre)
        /\ last.items # <<>> =>
              /\ last.rv = Good
              /\ Len(last.results) = Len(last.items)
              /\ \A i \in 1..Len(last.items) :
                    last.results[i] =
                       ItemResult(last.op,
                           ItemOutcome(last.op,
                               Store(StoreAfter(last.op, last.pre, last.items, i - 1)),
                               last.items[i]))
              /\ nodes = StoreAfter(last.op, last.pre, last.items, Len(last.items))

\* AddNodes has gone on after an item that failed: the first node has no
\* parent yet, the second node is added
C18_Witness ==
    /\ last.op = "AddNodes" /\ Len(last.items) = 2
    /\ last.results[1].statusCode = BadParentNodeIdInvalid
    /\ last.results[2].statusCode = Good
    /\ NewObj \in DOMAIN nodes

\* the new Variable nodes named name that the method m holds as property:
\* of type PropertyType, with dataType BaseDataType and valueRank 1
ArgumentsChildren(m, name) ==
    {c \in DOMAIN nodes \ DOMAIN last.pre :
        /\ nodes[c].nodeClass = VARIABLE_ /\ nodes[c].browseName = name
        /\ nodes[c].dataType = BASEDATATYPE /\ nodes[c].valueRank = 1
        /\ CountEdges(nodes, m, HASPROPERTY, c, FALSE) = 1
        /\ CountEdges(nodes, c, HASPROPERTY, m, TRUE) = 1
        /\ CountEdges(nodes, c, HASTYPEDEFINITION, PROPERTYTYPE, FALSE) = 1}

\* addMethodNode has returned Good for a method with input and output arguments
MethodWithArgumentsAdded ==
    /\ last.op = "addMethodNode" /\ last.rv = Good
    /\ last.args.inputArgumentsSize > 0 /\ last.args.outputArgumentsSize > 0

\* C19: a successful addMethodNode (of a method that has input and output
\* arguments) adds the Method node and then two Variable children,
\* InputArguments and OutputArguments, of type PropertyType, each connected to
\* the method by HasProperty, with dataType BaseDataType and valueRank 1
C19_MethodArguments ==
    MethodWithArgumentsAdded =>
        /\ last.id \in DOMAIN nodes \ DOMAIN last.pre
        /\ nodes[last.id].nodeClass = METHOD
        /\ Cardinality(ArgumentsChildren(last.id, "InputArguments")) = 1
        /\ Cardinality(ArgumentsChildren(last.id, "OutputArguments")) = 1

\* a call of addDataSourceVariableNode whose data source cannot be read
UnreadableDataSource ==
    /\ last.op = "addDataSourceVariableNode"
    /\ ~last.args.dataSource.read \/ last.args.dataSource.status # Good

\* C20: addDataSourceVariableNode reads the data source before the node is
\* inserted and type-checked. Without a read callback it returns
\* BadTypeMismatch, a read that fails gives its status to the call, and in
\* both cases no node is inserted and the store is as before; a call that
\* succeeds has read first and stores a node whose valueSource is DataSource
C20_DataSourceReadFirst ==
    /\ (last.op = "addDataSourceVariableNode" /\ ~last.args.dataSource.read)
          => last.rv = BadTypeMismatch
    /\ (last.op = "addDataSourceVariableNode" /\ last.args.dataSource.read
           /\ last.args.dataSource.status # Good)
          => last.rv = last.args.dataSource.status
    /\ UnreadableDataSource
          => /\ nodes = last.pre
             /\ \A i \in 1..Len(last.log) : last.log[i][1] # "insert"
    /\ (last.op = "addDataSourceVariableNode" /\ last.rv = Good)
          => /\ last.log[1][1] = "read" /\ last.log[2][1] = "insert"
             /\ last.id \in DOMAIN nodes /\ last.id \notin DOMAIN last.pre
             /\ nodes[last.id].valueSource = "DataSource"
             /\ nodes[last.id].value = last.args.dataSource

\* the read callback of the data source has failed
C20_Witness ==
    /\ UnreadableDataSource
    /\ last.args.dataSource.read
    /\ last.rv = BadNotImplemented

-----------------------------------------------------------------------------
(* Order of the steps of deleteNode and of addNode *)

\* every event before the last one of the log is a destructor call for node
\* n that carries the instanceHandle the node had before the call
DestructorsFirst(n) ==
    \A i \in 1..(Len(last.log) - 1) :
       /\ last.log[i][1] = "destructor"
       /\ last.log[i][3] = n
       /\ last.log[i][4] = last.pre[n].instanceHandle

\* the nodes other than n are as before the call, but for the edges toward n
OnlyEdgesTowardRemoved(n) ==
    \A u \in DOMAIN nodes :
       nodes[u] = [last.pre[u] EXCEPT !.references =
                      SelectSeq(@, LAMBDA e : e.targetId # n)]

\* C28: deleteNode runs the destructors first, while the node and its edges
\* are in the store, then removes the edges the peers hold toward the node,
\* only with deleteReferences, then removes the node; for an id that is not
\* in the store it returns BadNodeIdUnknown, calls no destructor and changes
\* nothing
C28_DeleteNodeOrder ==
    LET n == last.args.nodeId
    IN last.op = "deleteNode" =>
          IF n \notin DOMAIN last.pre
          THEN last.rv = BadNodeIdUnknown /\ last.log = <<>> /\ nodes = last.pre
          ELSE /\ last.rv = Good
               /\ DOMAIN nodes = DOMAIN last.pre \ {n}
               /\ last.log # <<>>
               /\ last.log[Len(last.log)] = <<"remove", n>>
               /\ DestructorsFirst(n)
               /\ last.args.flag => OnlyEdgesTowardRemoved(n)
               /\ ~last.args.flag => \A u \in DOMAIN nodes : nodes[u] = last.pre[u]

\* the same order without the effect on the peers: what the code does in
\* every call
DeleteNodeOrderOfCalls ==
    LET n == last.args.nodeId
    IN last.op = "deleteNode" =>
          IF n \notin DOMAIN last.pre
          THEN last.rv = BadNodeIdUnknown /\ last.log = <<>> /\ nodes = last.pre
          ELSE /\ last.rv = Good
               /\ DOMAIN nodes = DOMAIN last.pre \ {n}
               /\ last.log[Len(last.log)] = <<"remove", n>>
               /\ DestructorsFirst(n)
               /\ ~last.args.flag => \A u \in DOMAIN nodes : nodes[u] = last.pre[u]

-----------------------------------------------------------------------------
(* The edge that deleteOneWayReference removes *)

\* the positions of the edges of the list that match the item of the call
MatchingEdges(refs) ==
    {k \in 1..Len(refs) : /\ refs[k].targetId = last.args.targetNodeId
                          /\ refs[k].referenceTypeId = last.args.referenceTypeId
                          /\ last.args.isForward # refs[k].isInverse}

\* the list without the edge at position k, the tail edge moved into its slot
TailMovedInto(refs, k) ==
    [i \in 1..(Len(refs) - 1) |-> IF i = k THEN refs[Len(refs)] ELSE refs[i]]

\* a deleteReference that acts on its source only
OneWayDelete == last.op = "deleteReference" /\ ~last.args.flag

\* without a matching edge the call returns UncertainReferenceNotDeleted and
\* the list is as before
NoMatchNoChange ==
    LET refs == Refs(last.pre, last.args.nodeId)
    IN (OneWayDelete /\ MatchingEdges(refs) = {})
          => /\ last.rv = UncertainReferenceNotDeleted
             /\ Refs(nodes, last.args.nodeId) = refs

\* C29 as stated: deleteOneWay removes exactly one edge, the first edge in
\* list order that matches the item on target id, reference type id and
\* orientation, by moving the tail edge into its slot; without a match it
\* returns UncertainReferenceNotDeleted and the list is unchanged
C29_FirstMatchRemoved ==
    LET refs == Refs(last.pre, last.args.nodeId)
        m == MatchingEdges(refs)
    IN /\ NoMatchNoChange
       /\ (OneWayDelete /\ m # {})
             => /\ last.rv = Good
                /\ Refs(nodes, last.args.nodeId) =
                      TailMovedInto(refs, CHOOSE k \in m : \A j \in m : k <= j)

\* C29 amended: deleteOneWay removes exactly one edge, the last edge in list
\* order that matches the item on target id, reference type id and
\* orientation, by moving the tail edge into its slot; all other edges stay;
\* without a match it returns UncertainReferenceNotDeleted and the list is
\* unchanged
C29_LastMatchRemoved ==
    LET refs == Refs(last.pre, last.args.nodeId)
        m == MatchingEdges(refs)
    IN /\ NoMatchNoChange
       /\ (OneWayDelete /\ m # {})
             => /\ last.rv = Good
                /\ Refs(nodes, last.args.nodeId) =
                      TailMovedInto(refs, CHOOSE k \in m : \A j \in m : k >= j)

\* two edges of the list match and an edge that does not match is the tail
C29_Witness ==
    LET refs == Refs(last.pre, last.args.nodeId)
    IN /\ OneWayDelete
       /\ last.rv = Good
       /\ Cardinality(MatchingEdges(refs)) > 1
       /\ Len(refs) \notin MatchingEdges(refs)

-----------------------------------------------------------------------------
(* addNode_begin *)

\* the call has reached UA_Server_addNode_begin with a node of the class
BeginReached == last.op = "addNode_begin" /\ last.args.nodeClass # METHOD

\* the requested id is of a namespace of the server and no stored node has it
FreeIdRequested ==
    /\ NsOf(last.args.nodeId) < NamespacesSize
    /\ NumOf(last.args.nodeId) = 0 \/ last.args.nodeId \notin DOMAIN last.pre

\* C30: addNode_begin rejects a node whose id has a namespace index that is
\* not below the namespace count with BadNodeIdInvalid and leaves the store
\* unchanged; for a valid namespace and a free id it inserts the node without
\* parent, type or instantiation check and returns the id under which the
\* node is stored
C30_BeginInsertsUnchecked ==
    /\ (BeginReached /\ NsOf(last.args.nodeId) >= NamespacesSize)
          => last.rv = BadNodeIdInvalid /\ nodes = last.pre
    /\ (BeginReached /\ FreeIdRequested)
          => /\ last.rv = Good
             /\ last.id \in DOMAIN nodes \ DOMAIN last.pre
             /\ NumOf(last.args.nodeId) # 0 => last.id = last.args.nodeId
             /\ DOMAIN nodes = DOMAIN last.pre \cup {last.id}
             /\ \A u \in DOMAIN last.pre : nodes[u] = last.pre[u]
             /\ nodes[last.id].nodeId = last.id
             /\ nodes[last.id].nodeClass = last.args.nodeClass
             /\ nodes[last.id].references = <<>>
             /\ last.log = << <<"insert", last.id>> >>

\* a variable whose value does not have its data type has been begun under
\* the free id the call has asked for
C30_Witness ==
    /\ BeginReached /\ FreeIdRequested
    /\ last.args.nodeClass = VARIABLE_
    /\ last.id = NewObj
    /\ nodes[NewObj].value.type # nodes[NewObj].dataType

\* an id of a namespace the server does not have has been rejected
C30_WitnessNamespace ==
    /\ BeginReached
    /\ NsOf(last.args.nodeId) >= NamespacesSize
    /\ last.rv = BadNodeIdInvalid

-----------------------------------------------------------------------------
(* The rules of the parent reference *)

\* the statuses of checkParentReference
ParentStatuses == {BadParentNodeIdInvalid, BadReferenceTypeIdInvalid, BadReferenceNotAllowed}

\* the call has inserted its node, or has been given a node that was begun
NodeBegun ==
    \/ last.op = "addNode_finish" /\ last.args.nodeId \in DOMAIN last.pre
    \/ /\ last.op \in {"addNode", "addMethodNode"}
       /\ last.log # <<>>
       /\ last.log[1][1] = "insert"

\* an Object without parent and without reference type
ObjectWithoutParent ==
    /\ last.args.nodeClass = OBJECT
    /\ last.args.parentNodeId = NullId
    /\ last.args.referenceTypeId = NullId

\* the call has checked the parent reference of its node
ParentChecked == NodeBegun /\ ~ObjectWithoutParent

\* the node of the call is not in the store
NewNodeAbsent ==
    IF last.op = "addNode_finish" THEN last.args.nodeId \notin DOMAIN nodes
    ELSE DOMAIN nodes = DOMAIN last.pre

\* the id under which the node of the call is stored when its parent
\* reference is checked
BegunId == IF last.op = "addNode_finish" THEN last.args.nodeId ELSE last.log[1][2]

\* the store in which the parent reference is checked: the store before the
\* call and the node of the call
StoredAtCheck(id) == id \in DOMAIN last.pre \/ id = BegunId

\* the parent of the call is stored when the parent reference is checked
ParentResolves == StoredAtCheck(last.args.parentNodeId)

\* the reference type of the call is a stored ReferenceType node
ReferenceTypeResolves ==
    /\ last.args.referenceTypeId \in DOMAIN last.pre
    /\ last.pre[last.args.referenceTypeId].nodeClass = REFERENCETYPE

\* C23: the rules of the parent reference apply in a fixed order. A parent
\* that is not stored gives BadParentNodeIdInvalid whatever the reference
\* type; with a stored parent, a reference type id that is no stored
\* ReferenceType node gives BadReferenceTypeIdInvalid; with both, an abstract
\* reference type gives BadReferenceNotAllowed, also for a node of a type
\* class whose parent has another class
C23_ParentRuleOrder ==
    ParentChecked =>
       /\ ~ParentResolves => last.rv = BadParentNodeIdInvalid
       /\ (ParentResolves /\ ~ReferenceTypeResolves) => last.rv = BadReferenceTypeIdInvalid
       /\ (/\ ParentResolves
           /\ ReferenceTypeResolves
           /\ last.pre[last.args.referenceTypeId].isAbstract)
             => last.rv = BadReferenceNotAllowed

\* an object type below an object, by an abstract reference type, has been
\* rejected for the reference type
C23_Witness ==
    /\ ParentChecked
    /\ last.args.nodeClass = OBJECTTYPE
    /\ last.args.parentNodeId = OBJECTSFOLDER
    /\ last.args.referenceTypeId = AGGREGATES
    /\ last.rv = BadReferenceNotAllowed

\* a parent that is not stored under a reference type that is not stored
C23_WitnessMissingBoth ==
    /\ ParentChecked
    /\ last.args.parentNodeId = Missing
    /\ last.args.referenceTypeId = Missing
    /\ last.rv = BadParentNodeIdInvalid

RECURSIVE SubtypesFrom(_, _, _)
\* the nodes reached from the frontier over forward HasSubtype edges of ns
SubtypesFrom(ns, frontier, visited) ==
    IF frontier = {} THEN visited
    ELSE LET sub == {e.targetId : e \in
                        {x \in UNION {{Refs(ns, u)[k] : k \in 1..Len(Refs(ns, u))} :
                                         u \in frontier \cap DOMAIN ns} :
                            x.referenceTypeId = HASSUBTYPE /\ ~x.isInverse}}
         IN SubtypesFrom(ns, sub \ (visited \cup frontier), visited \cup frontier)

\* the reference type is HierarchicalReferences or one of its subtypes
Hierarchical(ns, r) == r \in SubtypesFrom(ns, {HIERARCHICALREFERENCES}, {})

\* a node of a class that is no type class, below a stored parent, by a
\* stored reference type that is not abstract
InstanceBelowParent ==
    /\ ParentChecked
    /\ last.args.nodeClass \in {OBJECT, VARIABLE_, METHOD, VIEW}
    /\ ParentResolves
    /\ ReferenceTypeResolves
    /\ ~last.pre[last.args.referenceTypeId].isAbstract

\* C24: for a node of a class that is no type class (Object, Variable,
\* Method, View), a stored parent and a stored reference type r that is not
\* abstract, the parent check passes exactly when r is HierarchicalReferences
\* or reached from it over hasSubtype edges; otherwise addNode returns
\* BadReferenceTypeIdInvalid and the new node is not in the store
C24_HierarchicalParentReference ==
    InstanceBelowParent =>
       IF Hierarchical(last.pre, last.args.referenceTypeId)
       THEN last.rv \notin ParentStatuses
       ELSE last.rv = BadReferenceTypeIdInvalid /\ NewNodeAbsent

\* a method below an object by HasTypeDefinition has been rejected
C24_Witness ==
    /\ InstanceBelowParent
    /\ last.args.nodeClass = METHOD
    /\ last.args.referenceTypeId = HASTYPEDEFINITION
    /\ last.rv = BadReferenceTypeIdInvalid

\* a view below an object by Organizes has been added
C24_WitnessPasses ==
    /\ InstanceBelowParent
    /\ last.args.nodeClass = VIEW
    /\ last.args.referenceTypeId = ORGANIZES
    /\ last.rv = Good
    /\ last.id \in DOMAIN nodes

\* C25: only an Object with both a null parent id and a null reference type
\* id skips the parent check; a node of another class with a null parent id
\* is rejected with BadParentNodeIdInvalid, and an Object with exactly one of
\* the two null goes through the check and is rejected
C25_OnlyObjectsSkipParentCheck ==
    NodeBegun =>
       /\ ObjectWithoutParent => last.rv \notin ParentStatuses
       /\ (last.args.nodeClass # OBJECT /\ last.args.parentNodeId = NullId)
             => last.rv = BadParentNodeIdInvalid
       /\ (/\ last.args.nodeClass = OBJECT
           /\ (last.args.parentNodeId = NullId) # (last.args.referenceTypeId = NullId))
             => last.rv \in {BadParentNodeIdInvalid, BadReferenceTypeIdInvalid}

\* a view without parent and reference type has been rejected
C25_Witness ==
    /\ NodeBegun
    /\ last.args.nodeClass = VIEW
    /\ last.args.parentNodeId = NullId
    /\ last.args.referenceTypeId = NullId
    /\ last.rv = BadParentNodeIdInvalid

\* an object without parent and reference type has been added, an object
\* with a parent and no reference type has been rejected
C25_WitnessObject ==
    /\ NodeBegun
    /\ last.args.nodeClass = OBJECT
    /\ \/ ObjectWithoutParent /\ last.rv = Good /\ Refs(nodes, last.id) # <<>>
       \/ /\ last.args.parentNodeId = OBJECTSFOLDER
          /\ last.args.referenceTypeId = NullId
          /\ last.rv = BadReferenceTypeIdInvalid

-----------------------------------------------------------------------------
(* Order of the steps of a successful addNode *)

LogPositions == 1..Len(last.log)

\* the nodes the call has inserted or instantiated
NodesOfCall ==
    {last.log[k][2] : k \in {j \in LogPositions : last.log[j][1] \in {"insert", "callback"}}}

\* the positions in the log of the steps of addNode for node n
Inserted(n) == {k \in LogPositions : last.log[k] = <<"insert", n>>}

Callbacks(n) ==
    {k \in LogPositions : last.log[k][1] = "callback" /\ last.log[k][2] = n}

Constructors(n) ==
    {k \in LogPositions : last.log[k][1] = "constructor" /\ last.log[k][3] = n}

TypeEdges(n) ==
    {k \in LogPositions : /\ last.log[k][1] = "reference"
                          /\ last.log[k][2] = n
                          /\ last.log[k][3] = HASTYPEDEFINITION
                          /\ last.log[k][5]}

ParentEdges(n) ==
    {k \in LogPositions : /\ last.log[k][1] = "reference"
                          /\ last.log[k][2] = n
                          /\ ~last.log[k][5]}

\* the nodes the call has created below n
ChildrenOf(n) ==
    {c \in NodesOfCall \ {n} : \E k \in ParentEdges(c) : last.log[k][4] = n}

\* the steps that create the children of n: the insertion, the callback and
\* the parent edge of every node created below n, and the edges from n to the
\* methods of its type
ChildSteps(n) ==
    UNION {Inserted(c) \cup Callbacks(c) \cup ParentEdges(c) : c \in ChildrenOf(n)}
    \cup {k \in LogPositions : /\ last.log[k][1] = "reference"
                               /\ last.log[k][2] = n
                               /\ last.log[k][3] # HASTYPEDEFINITION
                               /\ last.log[k][5]}

Before(A, B) == \A a \in A : \A b \in B : a < b

\* C27: in a successful addNode of an Object or Variable all children of the
\* type hierarchy are created first, each with its own instantiation
\* callback, then the constructor of the type runs, then the
\* HasTypeDefinition edge is added, then the instantiation callback of the
\* node fires, and only then the edge to the parent is added; the callback
\* fires at most once per node and only after the HasTypeDefinition edge of
\* the node has been added
C27_AddNodeStepOrder ==
    /\ last.op \in {"addNode", "addNode_finish"}
          => \A n \in NodesOfCall :
                /\ Cardinality(Callbacks(n)) <= 1
                /\ \A k \in Callbacks(n) : \E j \in TypeEdges(n) : j < k
    /\ (last.op \in {"addNode", "addNode_finish"} /\ last.rv = Good)
          => \A n \in {m \in NodesOfCall : nodes[m].nodeClass \in {OBJECT, VARIABLE_}} :
                /\ Cardinality(TypeEdges(n)) = 1
                /\ Cardinality(Callbacks(n)) = 1
                /\ Before(Inserted(n), ChildSteps(n))
                /\ \A c \in ChildrenOf(n) :
                      nodes[c].nodeClass \in {OBJECT, VARIABLE_} => Callbacks(c) # {}
                /\ Before(ChildSteps(n), Constructors(n) \cup TypeEdges(n))
                /\ Before(Constructors(n), TypeEdges(n))
                /\ Before(TypeEdges(n), Callbacks(n))
                /\ Before(Callbacks(n), ParentEdges(n))
                /\ n = last.id /\ last.args.parentNodeId # NullId
                      => Cardinality(ParentEdges(n)) = 1

\* an object of a type with a constructor and a member has been added below
\* a parent: a child has been created, the constructor has run
C27_Witness ==
    /\ last.op = "addNode" /\ last.rv = Good
    /\ last.args.nodeClass = OBJECT
    /\ ChildrenOf(last.id) # {}
    /\ Constructors(last.id) # {}
    /\ ParentEdges(last.id) # {}

-----------------------------------------------------------------------------
(* The status of a failed addNode *)

\* C21: when addNode fails, the status it returns is the status of the first
\* step that failed: the status of one step, never the combination of the
\* statuses of two failing steps, also when the instantiation walks several
\* ancestors of the type
C21_RootCauseStatus ==
    (last.op \in {"addNode", "addNode_finish", "addMethodNode"} /\ last.rv \notin {Good, Crash})
       => last.rv # Combined

-----------------------------------------------------------------------------
(* Members of the type and of its supertypes *)

\* an object of a stored type has been added
ObjectOfTypeAdded ==
    /\ last.op = "addNode" /\ last.rv = Good
    /\ last.args.nodeClass = OBJECT
    /\ last.args.typeDefinition \in DOMAIN last.pre

RECURSIVE MembersFrom(_, _)
\* the members of the types hierarchy[i..] before the call, in the order in
\* which the instantiation meets them
MembersFrom(hierarchy, i) ==
    IF i > Len(hierarchy) THEN <<>>
    ELSE AggregatedChildren(last.pre, hierarchy[i]) \o MembersFrom(hierarchy, i + 1)

\* the members of the type of the call and of its supertypes
MembersOfHierarchy ==
    MembersFrom(getTypeHierarchy(Store(last.pre), last.args.typeDefinition), 1)

\* the member at position k is the first one of its browse name
FirstOfName(members, k) ==
    \A j \in 1..(k - 1) : members[j].browseName # members[k].browseName

\* the members of the proper supertypes of the type of the call
MembersOfSupertypes ==
    MembersFrom(getTypeHierarchy(Store(last.pre), last.args.typeDefinition), 2)

\* C22: when a type T and one of its supertypes S both have an aggregated
\* child named X, instantiating T creates exactly one child X under the new
\* node, the clone of T's X, the most derived type being processed first; the
\* X of S only contributes the aggregated descendants that are missing under
\* that clone
C22_MostDerivedMemberWins ==
    ObjectOfTypeAdded =>
       LET own == AggregatedChildren(last.pre, last.args.typeDefinition)
       IN \A k \in 1..Len(own) :
          \A j \in 1..Len(MembersOfSupertypes) :
             (/\ FirstOfName(own, k)
              /\ own[k].nodeClass \in {VARIABLE_, OBJECT}
              /\ MembersOfSupertypes[j].browseName = own[k].browseName)
             => LET cs == ChildrenNamed(nodes, last.id, own[k].browseName)
                IN /\ Cardinality(cs) = 1
                   /\ \A c \in cs :
                         /\ c \notin DOMAIN last.pre
                         /\ Attributes(nodes[c])
                               = [Attributes(last.pre[own[k].nodeId]) EXCEPT !.nodeId = c]
                         /\ MembersOfSupertypes[j].nodeClass \in {VARIABLE_, OBJECT}
                               => Covered(last.pre, nodes, MembersOfSupertypes[j].nodeId,
                                          c, MaxDepth)

\* U and its supertype T both have a variable X; the object of type U has
\* one X, with the value 5 of the X of U and with the property Y of the X of T
C22_Witness ==
    /\ ObjectOfTypeAdded
    /\ last.args.typeDefinition = TypeU
    /\ ChildrenNamed(last.pre, TypeU, "X") # {}
    /\ \E c \in ChildrenNamed(nodes, last.id, "X") :
          /\ nodes[c].value = ScalarValue(INT32, 5)
          /\ ChildrenNamed(nodes, c, "Y") # {}

\* C26: when the instantiation finds a Method child of the type and the
\* destination has no child of that browse name, no node is created: the
\* number of Method nodes in the store is unchanged, the destination gets a
\* forward edge of the child's reference type to the method node of the type,
\* and the method node gets the matching inverse edge
C26_MethodMemberReferenced ==
    ObjectOfTypeAdded =>
       \A k \in 1..Len(MembersOfHierarchy) :
          LET rd == MembersOfHierarchy[k]
          IN (rd.nodeClass = METHOD /\ FirstOfName(MembersOfHierarchy, k))
                => /\ Cardinality({n \in DOMAIN nodes : nodes[n].nodeClass = METHOD})
                         = Cardinality({n \in DOMAIN last.pre :
                                           last.pre[n].nodeClass = METHOD})
                   /\ ChildrenNamed(nodes, last.id, rd.browseName) = {rd.nodeId}
                   /\ CountEdges(nodes, last.id, rd.referenceTypeId, rd.nodeId, FALSE) = 1
                   /\ CountEdges(nodes, rd.nodeId, rd.referenceTypeId, last.id, TRUE)
                         = CountEdges(last.pre, rd.nodeId, rd.referenceTypeId, last.id, TRUE) + 1

\* an object of a type with a method M has been added and refers to the
\* method of the type
C26_Witness ==
    /\ ObjectOfTypeAdded
    /\ \E k \in 1..Len(MembersOfHierarchy) :
          /\ MembersOfHierarchy[k].nodeClass = METHOD
          /\ MembersOfHierarchy[k].nodeId \in ChildrenNamed(nodes, last.id, "M")

-----------------------------------------------------------------------------
(* The data type check *)

\* addNode of a Variable or VariableType with a free id has reached the type
\* check: the parent and the reference type have passed the parent check
TypeCheckReached ==
    /\ last.op = "addNode" /\ Len(last.items) = 1
    /\ \/ VariableRequest
       \/ /\ TypeNodeRequest
          /\ last.args.nodeClass = VARIABLETYPE
          /\ last.args.referenceTypeId = HASSUBTYPE
          /\ last.pre[last.args.parentNodeId].nodeClass = VARIABLETYPE

\* the type parent of the request: the type definition of a Variable, the
\* parent of a VariableType
TypeParentOfRequest ==
    IF last.args.nodeClass = VARIABLE_ THEN EffectiveType(last.args)
    ELSE last.args.parentNodeId

\* the type parent resolves to a VariableType that the node may have
ValidTypeParent ==
    /\ TypeParentOfRequest \in DOMAIN last.pre
    /\ last.pre[TypeParentOfRequest].nodeClass = VARIABLETYPE
    /\ last.args.nodeClass = VARIABLE_ => ~last.pre[TypeParentOfRequest].isAbstract

\* the data type of the request, BaseDataType for none
EffectiveDataType ==
    IF last.items[1].dataType = NullId THEN BASEDATATYPE ELSE last.items[1].dataType

\* the effective data type is the data type of the type parent or is reached
\* from it over HasSubtype edges
DataTypeAgrees ==
    EffectiveDataType \in SubtypesFrom(last.pre, {last.pre[TypeParentOfRequest].dataType}, {})

C31_WitnessDefault ==
    /\ TypeCheckReached /\ ValidTypeParent
    /\ last.items[1].dataType = NullId
    /\ last.rv = Good /\ nodes[last.id].dataType = BASEDATATYPE

\* a String variable has been added with the type definition VT after String
\* has become a subtype of Int32
C31_WitnessSubtype ==
    /\ TypeCheckReached /\ ValidTypeParent
    /\ last.items[1].dataType = STRINGTYPE
    /\ TypeParentOfRequest = TypeVT
    /\ last.rv = Good

-----------------------------------------------------------------------------
(* Successful additions and the symmetry of the edges *)

\* the nodes the last call has created
CreatedNodes == DOMAIN nodes \ DOMAIN last.pre

\* every edge of node u has its matching inverse on the peer
SymmetricAt(ns, u) ==
    \A k \in 1..Len(Refs(ns, u)) :
       CountEdges(ns, Refs(ns, u)[k].targetId, Refs(ns, u)[k].referenceTypeId, u,
                  ~Refs(ns, u)[k].isInverse) > 0

\* C32: from a store in which every edge has its matching inverse, successful
\* addNode and addReference calls alone keep that property for every node,
\* the Object and Variable children cloned from type members included: no
\* node that a call has created holds an edge whose peer lacks the matching
\* inverse edge
C32_AdditionsKeepSymmetry ==
    Symmetric(last.pre) =>
        /\ \A u \in CreatedNodes : SymmetricAt(nodes, u)
        /\ Symmetric(nodes)

\* the store the behaviours start from has the property
C32_SymmetricStart == last.op = "init" => Symmetric(nodes)

-----------------------------------------------------------------------------
(* The type definition of the nodes that addNode creates *)

\* the positions of the forward HasTypeDefinition edges of node u
TypeDefinitionEdges(ns, u) ==
    {k \in 1..Len(Refs(ns, u)) :
        Refs(ns, u)[k].referenceTypeId = HASTYPEDEFINITION /\ ~Refs(ns, u)[k].isInverse}

\* C33: after every successful addNode each Object or Variable node it has
\* created, the requested node and every child cloned during instantiation,
\* holds exactly one forward HasTypeDefinition edge; the edge of the requested
\* node targets the type the node was instantiated from
C33_OneTypeDefinition ==
    (last.op = "addNode" /\ last.rv = Good) =>
        /\ \A u \in CreatedNodes :
              nodes[u].nodeClass \in {OBJECT, VARIABLE_}
                 => Cardinality(TypeDefinitionEdges(nodes, u)) = 1
        /\ (last.id \in CreatedNodes /\ last.args.nodeClass \in {OBJECT, VARIABLE_})
              => \A k \in TypeDefinitionEdges(nodes, last.id) :
                    Refs(nodes, last.id)[k].targetId = EffectiveType(last.args)

\* C33 for the requested node alone
RequestedNodeTyped ==
    (last.op = "addNode" /\ last.rv = Good /\ last.id \in CreatedNodes
       /\ last.args.nodeClass \in {OBJECT, VARIABLE_})
        => /\ Cardinality(TypeDefinitionEdges(nodes, last.id)) = 1
           /\ \A k \in TypeDefinitionEdges(nodes, last.id) :
                 Refs(nodes, last.id)[k].targetId = EffectiveType(last.args)

-----------------------------------------------------------------------------
(* A failed addNode and the store *)

\* addNode has returned a status that is not good
AddNodeFailed == last.op = "addNode" /\ last.rv \notin {Good, Crash}

\* C34: whenever addNode returns a non-good status the whole store equals its
\* state before the call: no child node created during a partially completed
\* instantiation remains, and no edge list of a node that was there before
\* has gained an edge
C34_FailedAddNodeRestoresStore ==
    AddNodeFailed =>
        /\ DOMAIN nodes = DOMAIN last.pre
        /\ \A u \in DOMAIN last.pre \cap DOMAIN nodes :
              Len(Refs(nodes, u)) <= Len(Refs(last.pre, u))
        /\ nodes = last.pre

\* C34 for the requests that fail before the instantiation has created a node
FailedBeforeInstantiation ==
    (AddNodeFailed /\ \A k \in 2..Len(last.log) : last.log[k][1] # "insert")
        => nodes = last.pre

-----------------------------------------------------------------------------
(* deleteNode and the other nodes *)

\* C35: deleteNode(n, deleteReferences) removes exactly the node n from the
\* store and never another node, the children created for n by instantiation
\* stay; with deleteReferences = false every other node is left as it was,
\* the edges that target the removed node included
C35_DeleteNodeFrame ==
    last.op = "deleteNode" =>
        /\ last.rv = Good
              => /\ last.args.nodeId \in DOMAIN last.pre
                 /\ DOMAIN nodes = DOMAIN last.pre \ {last.args.nodeId}
        /\ last.rv # Good => nodes = last.pre
        /\ ~last.args.flag => \A u \in DOMAIN nodes : nodes[u] = last.pre[u]

\* an object with a child has been deleted with deleteReferences = false: the
\* child is in the store with its edge to the object, and the parent of the
\* object still holds its edge to it
C35_Witness ==
    /\ last.op = "deleteNode" /\ last.rv = Good /\ ~last.args.flag
    /\ \E c \in DOMAIN nodes : HoldsEdgeTo(nodes, c, last.args.nodeId)
                                  /\ HoldsEdgeTo(last.pre, last.args.nodeId, c)
                                  /\ nodes[c].nodeClass = VARIABLE_
    /\ HoldsEdgeTo(nodes, OBJECTSFOLDER, last.args.nodeId)

\* an object with a child has been deleted with deleteReferences = true and
\* the child is in the store
C35_WitnessReferences ==
    /\ last.op = "deleteNode" /\ last.rv = Good /\ last.args.flag
    /\ \E c \in DOMAIN nodes : HoldsEdgeTo(last.pre, last.args.nodeId, c)
                                  /\ nodes[c].nodeClass = VARIABLE_

-----------------------------------------------------------------------------
(* Termination of addNode *)

\* C36: addNode terminates for every finite store, also when a member of a
\* type has that type as its type definition or when aggregated children form
\* a cycle: the recursion addNode -> instantiateNode -> copyChildNodes ->
\* addNode reaches a point where no further node is created, it never uses up
\* the nesting depth
C36_AddNodeTerminates ==
    last.op = "addNode" => last.rv # Crash

\* the targets of the forward edges of node u whose reference type is in rs
ForwardTargets(ns, u, rs) ==
    {Refs(ns, u)[k].targetId :
        k \in {j \in 1..Len(Refs(ns, u)) :
                  Refs(ns, u)[j].referenceTypeId \in rs /\ ~Refs(ns, u)[j].isInverse}}

RECURSIVE AggregatedFrom(_, _, _)
\* the nodes reached from the frontier over one or more forward Aggregates,
\* HasComponent or HasProperty edges of ns
AggregatedFrom(ns, frontier, visited) ==
    LET next == UNION {ForwardTargets(ns, u, {AGGREGATES, HASCOMPONENT, HASPROPERTY}) :
                          u \in frontier \cap DOMAIN ns}
    IN IF next \subseteq visited THEN visited
       ELSE AggregatedFrom(ns, next \ visited, visited \cup next)

\* an object type of ns has an Object member whose type definition is that
\* type or one of its subtypes
SelfTypedMember(ns) ==
    \E t \in DOMAIN ns :
       /\ ns[t].nodeClass = OBJECTTYPE
       /\ \E c \in ForwardTargets(ns, t, {AGGREGATES, HASCOMPONENT, HASPROPERTY}) \cap DOMAIN ns :
             /\ ns[c].nodeClass = OBJECT
             /\ ForwardTargets(ns, c, {HASTYPEDEFINITION}) \cap SubtypesFrom(ns, {t}, {}) # {}

\* a node of ns is among its own aggregated descendants
AggregateCycle(ns) == \E u \in DOMAIN ns : u \in AggregatedFrom(ns, {u}, {})

\* the nesting depth is only used up on a store with a type that has a
\* member of its own type or with a cycle of aggregated children
ExhaustedOnRecursiveStore ==
    last.rv = Crash => (SelfTypedMember(last.pre) \/ AggregateCycle(last.pre))

\* the nesting depth has been used up by an object of a type that has a
\* member of its own type
C36_WitnessSelfTyped ==
    /\ last.op = "addNode" /\ last.rv = Crash
    /\ SelfTypedMember(last.pre) /\ ~AggregateCycle(last.pre)

\* the nesting depth has been used up on a store where the property Y of the
\* variable X has X as its component
C36_WitnessCycle ==
    /\ last.op = "addNode" /\ last.rv = Crash
    /\ ~SelfTypedMember(last.pre) /\ AggregateCycle(last.pre)

-----------------------------------------------------------------------------
(* The process-wide lock *)

\* the public calls that take the lock
LockingCalls ==
    {"addReference", "deleteNode", "deleteReference", "addDataSourceVariableNode",
     "addMethodNode", "setLifecycleManagement"}

\* C37: every public entry point that takes the process-wide lock releases it
\* as many times as it acquires it on every return path: the nesting count of
\* the lock after the call equals the count before the call
C37_LockBalanced ==
    [][last'.op \in LockingCalls => rcu' = rcu]_vars

\* C37 for the entry points other than addDataSourceVariableNode, and for
\* addDataSourceVariableNode when the read of the data source fails
BalancedButDataSourceAdded ==
    [][(/\ last'.op \in LockingCalls
        /\ last'.op = "addDataSourceVariableNode"
              => (~last'.args.dataSource.read \/ last'.args.dataSource.status # Good))
       => rcu' = rcu]_vars

\* the lock is never released more often than it has been acquired
LockNeverNegative == rcu >= 0


-----------------------------------------------------------------------------
(* deleteReference between O1 and its peers *)

\* the edges the calls name, all from O1: to T with a null reference type
\* (the type of the secondItem of Service_DeleteReferences_single), to T
\* with HasTypeDefinition, and the inverse Organizes edge to the Objects
\* folder
PeerRequests ==
    {[r |-> NullId, t |-> TypeT, fwd |-> TRUE],
     [r |-> HASTYPEDEFINITION, t |-> TypeT, fwd |-> TRUE],
     [r |-> ORGANIZES, t |-> OBJECTSFOLDER, fwd |-> FALSE]}

\* UA_Server_addReference with source O1
AddPeerEdge ==
    /\ nops < MaxPeerOps
    /\ \E q \in PeerRequests :
          Called("addReference",
                 [NoArgs EXCEPT !.nodeId = Obj1, !.referenceTypeId = q.r,
                                !.targetNodeId = q.t, !.isForward = q.fwd],
                 Service_AddReferences_single(Server,
                     AddReferencesItem(Obj1, q.r, q.t, q.fwd), "none"),
                 NullId)
    /\ UNCHANGED pending
    /\ rcu' = CriticalSection(rcu)

\* UA_Server_deleteReference with source O1 or the object that has been
\* begun, whose edge list is empty; the target is an expanded node id with a
\* server index
DeletePeerEdge ==
    /\ nops < MaxPeerOps
    /\ \E s \in {Obj1, Begun} :
       \E q \in PeerRequests :
       \E deleteBidirectional \in BOOLEAN :
       \E serverIndex \in {0, 1} :
          Called("deleteReference",
                 [NoArgs EXCEPT !.nodeId = s, !.referenceTypeId = q.r,
                                !.targetNodeId = q.t, !.isForward = q.fwd,
                                !.flag = deleteBidirectional,
                                !.serverIndex = serverIndex],
                 Service_DeleteReferences_single(Server,
                     [DeleteReferencesItem(s, q.r, q.t, q.fwd, deleteBidirectional)
                         EXCEPT !.serverIndex = serverIndex]),
                 NullId)
    /\ UNCHANGED pending
    /\ rcu' = CriticalSection(rcu)

NextPeers == AddPeerEdge \/ DeletePeerEdge

SpecPeers == Init /\ [][NextPeers]_vars

-----------------------------------------------------------------------------
(* The frame of deleteReference *)

\* a deleteReference whose source exists
DeleteReferenceCalled ==
    last.op = "deleteReference" /\ last.args.nodeId \in DOMAIN last.pre

\* the source held no edge that matches the item of the call
NoMatchOnSource ==
    /\ DeleteReferenceCalled
    /\ MatchingEdges(Refs(last.pre, last.args.nodeId)) = {}

\* the positions of the edges of the target that the second direction of the
\* call looks for: to the source, in the other orientation, of reference type r
PeerEdges(r) ==
    LET refs == Refs(last.pre, last.args.targetNodeId)
    IN {k \in 1..Len(refs) : /\ refs[k].targetId = last.args.nodeId
                             /\ refs[k].referenceTypeId = r
                             /\ last.args.isForward = refs[k].isInverse}

\* every node but the source is as before the call
OnlySourceChanged ==
    /\ DOMAIN nodes = DOMAIN last.pre
    /\ \A u \in DOMAIN nodes \ {last.args.nodeId} : nodes[u] = last.pre[u]

\* C38: when deleteReference finds no matching edge on the source node it
\* returns UncertainReferenceNotDeleted and the edge list of the target is
\* unchanged, also with deleteBidirectional set and the inverse edge still on
\* the target; with a non-zero serverIndex of the target or with
\* deleteBidirectional false only the edge list of the source changes
C38_DeleteReferenceFrame ==
    /\ NoMatchOnSource
          => /\ last.rv = UncertainReferenceNotDeleted
             /\ Refs(nodes, last.args.targetNodeId) =
                   Refs(last.pre, last.args.targetNodeId)
    /\ (DeleteReferenceCalled /\ (last.args.serverIndex # 0 \/ ~last.args.flag))
          => OnlySourceChanged

\* no match on the source, deleteBidirectional set, a local target that holds
\* the inverse edge of the reference type of the call
C38_Witness ==
    /\ NoMatchOnSource
    /\ last.args.flag
    /\ last.args.serverIndex = 0
    /\ last.args.referenceTypeId # NullId
    /\ PeerEdges(last.args.referenceTypeId) # {}

\* the same with the inverse edge that the second direction would match
C38_WitnessNullType ==
    /\ NoMatchOnSource
    /\ last.args.flag
    /\ last.args.serverIndex = 0
    /\ PeerEdges(NullId) # {}

\* an edge is removed from the source, deleteBidirectional is set and the
\* target of the call has a non-zero serverIndex and holds the inverse edge
C38_WitnessServerIndex ==
    /\ DeleteReferenceCalled
    /\ last.rv = Good
    /\ last.args.flag
    /\ last.args.serverIndex # 0
    /\ PeerEdges(NullId) # {}
    /\ Len(Refs(nodes, last.args.nodeId)) < Len(Refs(last.pre, last.args.nodeId))

\* an edge is removed from the source with deleteBidirectional false
C38_WitnessOneWay ==
    /\ DeleteReferenceCalled
    /\ last.rv = Good
    /\ ~last.args.flag
    /\ PeerEdges(last.args.referenceTypeId) # {}
    /\ Len(Refs(nodes, last.args.nodeId)) < Len(Refs(last.pre, last.args.nodeId))


-----------------------------------------------------------------------------
(* The index of the backward scan *)

\* the values of the index during the scan of the source of the call
SourceScan ==
    LET refs == Refs(last.pre, last.args.nodeId)
    IN ScanTrace(refs,
                 [targetNodeId |-> last.args.targetNodeId,
                  referenceTypeId |-> last.args.referenceTypeId,
                  isForward |-> last.args.isForward],
                 (Len(refs) - 1) % SizeMax)

\* the values of the index that pass the test i > referencesSize, at which
\* references[i] is read
ReadIndices(trace, referencesSize) ==
    {trace[k] : k \in {j \in 1..Len(trace) : trace[j] <= referencesSize}}

\* the scan of the source agrees with the index that ScanReferences returns
ScanAgrees ==
    LET refs == Refs(last.pre, last.args.nodeId)
        end == SourceScan[Len(SourceScan)]
    IN DeleteReferenceCalled
          => ScanReferences(refs,
                            [targetNodeId |-> last.args.targetNodeId,
                             referenceTypeId |-> last.args.referenceTypeId,
                             isForward |-> last.args.isForward],
                            (Len(refs) - 1) % SizeMax)
                = (IF end > Len(refs) THEN SizeMax
                   ELSE IF end = Len(refs) THEN SizeMax + 1 ELSE end)

\* C39: the backward scan of deleteOneWayReference, whose unsigned index
\* starts at referencesSize-1 and wraps around below zero, ends for every
\* length of the list, the empty list included, after at most
\* referencesSize+1 values of the index; it reads only indices in
\* 0..referencesSize-1; referencesSize is one less after the call when an edge
\* is removed and the same otherwise
C39_ScanBounded ==
    LET refs == Refs(last.pre, last.args.nodeId)
        size == Len(Refs(nodes, last.args.nodeId))
    IN DeleteReferenceCalled
          => /\ ScanAgrees
             /\ Len(SourceScan) <= Len(refs) + 1
             /\ ReadIndices(SourceScan, Len(refs)) \subseteq 0..(Len(refs) - 1)
             /\ IF MatchingEdges(refs) # {}
                THEN /\ SourceScan[Len(SourceScan)] < Len(refs)
                     /\ size = Len(refs) - 1
                ELSE /\ SourceScan[Len(SourceScan)] = SizeMax - 1
                     /\ size = Len(refs)

\* the scan of an empty list: the index starts at the wrapped value
C39_WitnessEmpty ==
    /\ DeleteReferenceCalled
    /\ Refs(last.pre, last.args.nodeId) = <<>>
    /\ SourceScan = <<SizeMax - 1>>

\* the scan of a list of two edges or more runs below zero without a match
C39_WitnessWrap ==
    /\ DeleteReferenceCalled
    /\ Len(Refs(last.pre, last.args.nodeId)) >= 2
    /\ Len(SourceScan) = Len(Refs(last.pre, last.args.nodeId)) + 1
    /\ Len(Refs(nodes, last.args.nodeId)) = Len(Refs(last.pre, last.args.nodeId))

\* the scan removes an edge at an index below the last
C39_Witness ==
    /\ DeleteReferenceCalled
    /\ Len(SourceScan) >= 2
    /\ SourceScan[Len(SourceScan)] < Len(Refs(last.pre, last.args.nodeId)) - 1
    /\ Len(Refs(nodes, last.args.nodeId)) = Len(Refs(last.pre, last.args.nodeId)) - 1

=============================================================================
